---- MODULE Spec2Model ----
(***************************************************************************)
(* Build orchestration pipelines (src/api/routes.py), the Task Manager     *)
(* (src/services/task_manager.py) and the Task Store                       *)
(* (src/services/dynamodb.py) of web-faas-builder.                         *)
(*                                                                         *)
(* Text values are sequences of tokens: <<>> is the empty string "",       *)
(* <<"x">> a non-empty string, and None is Python's None.  An f-string     *)
(* f"prefix{v}" is <<prefix>> \o Str(v).                                   *)
(***************************************************************************)
EXTENDS Integers, Sequences, FiniteSets, TLC

\* ------------------------------------------------------------------ bounds
MaxTasks == 1

\* the clock of datetime.utcnow() runs from 0 to MaxClock
MaxClock == 2

\* ------------------------------------------------------------ text values
None == <<"<None>">>

\* Python truthiness of an Optional[str]: None and "" are falsy
Truthy(v) == v # None /\ v # <<>>

\* str(v) inside an f-string: None is rendered as the text "None"
Str(v) == IF v = None THEN <<"None">> ELSE v

\* f"{prefix}{v}"
Fmt(prefix, v) == <<prefix>> \o Str(v)

\* text s occurs in text m as a contiguous run of tokens
Contains(m, s) ==
    \E i \in 0..(Len(m) - Len(s)) : SubSeq(m, i + 1, i + Len(s)) = s

\* diagnostic texts an external tool can return: empty or not
Diag == {<<>>, <<"diag">>}

\* exception texts str(e): empty or not
ExcText == {<<>>, <<"boom">>}

\* ------------------------------------------------------------ identifiers
TaskIds == 1..MaxTasks

\* workspace ids a request can carry; "" is accepted by the JSON body of /push
Workspaces == {<<"w1">>}
EmptyWs == <<>>

\* the app_name form field of /build and /build-and-push; /push passes none
AppNames == {<<"app">>}

\* uploaded file names: archive, single source file, anything else
Filenames == {"app.zip", "app.py", "app.txt"}

\* uuid4 drawn for the preliminary source prefix: never a task id
PrelimId(t) == 0 - t

\* S3StorageService.get_source_prefix: s3://<bucket>/build-sources/<ws>/<id>/
get_source_prefix(w, id) ==
    <<"s3://bucket/build-sources/">> \o w \o <<"/", ToString(id), "/">>

\* S3StorageService.get_artifact_path rendered by _upload_file
ArtifactS3Path(t) == <<"s3://bucket/build-artifacts/", ToString(t), "/app.wasm">>

\* str(app_dir / "app.wasm"): the local artifact of BuildService.build
LocalWasmPath(t) == <<"/tmp/spin_build_", ToString(t), "/app.wasm">>

\* image reference <registry>/<repo>:<tag>
ImageRef(t) == <<"registry/repo:", ToString(t)>>

\* ------------------------------------------------------------- enumerations
BuildStatus == {"PENDING", "BUILDING", "PUSHING", "DONE", "FAILED"}
TaskStatus == {"pending", "running", "completed", "failed"}

BUILD_STATUS_TO_TASK_STATUS(bs) ==
    CASE bs = "PENDING" -> "pending"
      [] bs = "BUILDING" -> "running"
      [] bs = "PUSHING" -> "running"
      [] bs = "DONE" -> "completed"
      [] bs = "FAILED" -> "failed"
      [] OTHER -> "pending"

Kinds == {"build", "push", "build_and_push"}

\* --------------------------------------------------------------- the store
PkPrefixes == <<"ws#", "WS#">>
SkPrefixes == <<"build#", "BUILD#">>

Key(pp, w, sp, t) == [pkp |-> pp, ws |-> w, skp |-> sp, tid |-> t]

\* BuildTaskItem.generate_pk / generate_sk: the canonical key
CanonKey(w, t) == Key("ws#", w, "build#", t)

\* a workspace of the same table that no request of this model names
OtherWorkspaces == {<<"w2">>}

StoreKeys ==
    {Key(pp, w, sp, t) : pp \in {"ws#", "WS#"},
                         w \in Workspaces \cup OtherWorkspaces,
                         sp \in {"build#", "BUILD#"}, t \in TaskIds}

\* an attribute that is absent from an item is None
NoItem ==
    [exists |-> FALSE, Type |-> None, AppName |-> None, Status |-> "<absent>",
     SourceCodePath |-> None, CreatedAt |-> None, UpdatedAt |-> None,
     WasmPath |-> None, ImageUrl |-> None, ErrorMessage |-> None]

\* datetime.isoformat / datetime.fromisoformat: a time is a number of clock
\* ticks, its ISO-8601 text the one-token text of its digits
isoformat(n) == <<ToString(n)>>

fromisoformat(s) == CHOOSE n \in 0..(MaxClock + 1) : isoformat(n) = s

\* datetime.fromisoformat raises ValueError on a text that is no ISO-8601 time
Parses(s) == \E n \in 0..(MaxClock + 1) : isoformat(n) = s

\* created_at / updated_at of a task that is not there
NoTime == 0 - 1

\* ------------------------------------------------------------------- state
VARIABLES
    tasks,          \* TaskManager._tasks: the per-process cache
    wsmap,          \* TaskManager._task_workspace_map
    store,          \* the key-value table behind DynamoDBService
    core_endpoint,  \* CORE_SERVICE_ENDPOINT is configured
    next_id,        \* number of uuid4 task ids handed out
    run,            \* per task: the background pipeline's position and locals
    issued,         \* per task: statuses passed to update_build_status, in order
    updates,        \* per task: the artifact and image arguments that went with them
    stages,         \* per task: stages executed, in order, with their outcome
    responded,      \* per task: the 202 response has been returned
    now,            \* the reading of datetime.utcnow(), in clock ticks
    ret,            \* the last direct call of a TaskManager method and its value
    conv            \* the conversion under examination: its input and output

vars == <<tasks, wsmap, store, core_endpoint, next_id, run, issued, updates, stages,
          responded, now, ret, conv>>

\* what the pipelines and handlers never touch
aux == <<ret, conv>>

NoCall == [op |-> "none"]

NoResult == [set |-> FALSE, wasm_path |-> None, image_uri |-> None]

NoTask ==
    [cached |-> FALSE, status |-> "pending", created_at |-> NoTime,
     updated_at |-> NoTime, result |-> NoResult,
     error |-> None, workspace_id |-> None, app_name |-> None]

\* a pipeline run: the arguments of run_*_task, its position (pc), the local
\* wasm path carried between stages, and the temporary download directory
NoRun ==
    [kind |-> "none", pc |-> "none", filename |-> "", ws |-> None,
     s3_source_path |-> None, py_files |-> FALSE, wasm |-> None,
     temp_dir |-> "none"]

\* a process that has served no request yet
InitProgram ==
    /\ tasks = [t \in TaskIds |-> NoTask]
    /\ wsmap = [t \in TaskIds |-> None]
    /\ store = [k \in StoreKeys |-> NoItem]
    /\ core_endpoint \in BOOLEAN
    /\ next_id = 0
    /\ run = [t \in TaskIds |-> NoRun]
    /\ issued = [t \in TaskIds |-> <<>>]
    /\ updates = [t \in TaskIds |-> <<>>]
    /\ stages = [t \in TaskIds |-> <<>>]
    /\ responded = [t \in TaskIds |-> FALSE]
    /\ now = 0
    /\ ret = NoCall

Init == InitProgram /\ conv = NoCall

\* ------------------------------------------------- results of the stages
\* A stage call either raises (exc is str(e)) or returns a result object.
Raised(e) == [raised |-> TRUE, exc |-> e, success |-> FALSE, error |-> None, value |-> None]
Ok(v) == [raised |-> FALSE, exc |-> None, success |-> TRUE, error |-> None, value |-> v]
Fail(e) == [raised |-> FALSE, exc |-> None, success |-> FALSE, error |-> e, value |-> None]

\* FileHandler.handle_zip / handle_single_py: every failure carries a literal
\* or a prefixed text; create_temp_work_dir (mkdtemp) may raise
FileHandlerResults(t) ==
    {Ok(None), Fail(<<"spin.toml not found in zip archive">>)}
        \cup {Raised(e) : e \in ExcText}

\* tempfile.mkdtemp: a directory, or OSError
MkdtempResults == {Ok(None)} \cup {Raised(e) : e \in ExcText}

\* the s3_source_path of a push request: absent, or a source prefix
SourcePaths == {None, <<"s3://bucket/build-sources/w1/src/">>}

\* S3StorageService.upload_source_directory: never raises; str(e) may be empty
UploadSourceResults(w, t) ==
    {Ok(get_source_prefix(w, t)), Fail(<<>>)}

\* S3StorageService.upload_artifact -> _upload_file: never raises
UploadArtifactResults(t) ==
    {Ok(ArtifactS3Path(t)), Fail(<<"File not found: ", "app.wasm">>)}

\* S3StorageService.download_source_directory: never raises
DownloadResults ==
    {Ok(None), Fail(<<"No files found at S3 path: ", "s3">>)}

\* the fields a 200/202 response body of the compile service can carry
ResponseField(v) == {None, <<>>, v}

\* CoreServiceClient.build: never raises; wasm_path is data.get("wasm_path")
CoreBuildResults(t) ==
    {Ok(v) : v \in ResponseField(ArtifactS3Path(t))}
        \cup {Fail(Fmt("Core Service build failed: ", <<>>))}

\* CoreServiceClient.push: never raises; image_url is data.get("image_url")
CorePushResults(t) ==
    {Ok(v) : v \in ResponseField(ImageRef(t))}
        \cup {Fail(Fmt("Core Service push failed: ", <<>>))}

\* ValidationService.validate_python: subprocess.run may raise; output is
\* stdout + stderr, whatever mypy printed
ValidationResults ==
    {Ok(None), Fail(<<>>)} \cup {Raised(e) : e \in ExcText}

\* BuildService.build: result.stderr or result.stdout on a non-zero exit
BuildServiceBuildResults(t) ==
    {Ok(LocalWasmPath(t)),
     Fail(<<"Build succeeded but WASM artifact not found">>)}
        \cup {Fail(d) : d \in Diag}

\* BuildService.full_build: prepare_environment, install_requirements, build
FullBuildResults(t) ==
    {Fail(Fmt("Environment setup failed: ", <<"venv template not found">>))}
        \cup BuildServiceBuildResults(t)

\* PushService.full_push (login + push): structured result with image_uri
FullPushResults(t) ==
    {Ok(ImageRef(t)), Fail(<<"push failed">>)} \cup {Raised(e) : e \in ExcText}

\* ---------------------------------------------------------- the Task Store
\* DynamoDBService.create_task: put_item of to_dynamodb_item(); the optional
\* attributes are written only when truthy; a failing put is swallowed
PutItem(S, w, t, app_name, source_code_path, ok) ==
    IF ok
    THEN [S EXCEPT ![CanonKey(w, t)] =
            [exists |-> TRUE, Type |-> <<"BuildTask">>, AppName |-> app_name,
             Status |-> "PENDING", SourceCodePath |-> source_code_path,
             CreatedAt |-> isoformat(now), UpdatedAt |-> isoformat(now),
             WasmPath |-> None, ImageUrl |-> None, ErrorMessage |-> None]]
    ELSE S

\* variant of UpdateItem: an argument that is None clears the attribute
UpdateItem_clear(S, w, t, status, wasm_path, image_url, error_message, ok) ==
    IF ok
    THEN [S EXCEPT ![CanonKey(w, t)] =
            [@ EXCEPT !.exists = TRUE, !.Status = status,
                      !.UpdatedAt = isoformat(now), !.WasmPath = wasm_path,
                      !.ImageUrl = image_url, !.ErrorMessage = error_message]]
    ELSE S

\* DynamoDBService.update_status: update_item with SET #status, UpdatedAt and
\* one clause per argument that is not None; no condition expression, so the
\* item is created when absent; a failing update is swallowed
UpdateItem(S, w, t, status, wasm_path, image_url, error_message, ok) ==
    IF ok
    THEN [S EXCEPT ![CanonKey(w, t)] =
            [@ EXCEPT !.exists = TRUE,
                      !.Status = status,
                      !.UpdatedAt = isoformat(now),
                      !.WasmPath = IF wasm_path # None THEN wasm_path ELSE @,
                      !.ImageUrl = IF image_url # None THEN image_url ELSE @,
                      !.ErrorMessage =
                          IF error_message # None THEN error_message ELSE @]]
    ELSE S

\* --------------------------------------------------------- the Task Manager
\* TaskManager.update_build_status, the in-memory half
UpdateCached(task, build_status, wasm_path, image_url, error) ==
    [task EXCEPT
        !.status = BUILD_STATUS_TO_TASK_STATUS(build_status),
        !.updated_at = now,
        !.error = IF Truthy(error) THEN error ELSE @,
        !.result =
            IF Truthy(wasm_path) \/ Truthy(image_url)
            THEN [set |-> TRUE,
                  wasm_path |-> IF Truthy(wasm_path) THEN wasm_path ELSE @.wasm_path,
                  image_uri |-> IF Truthy(image_url) THEN image_url ELSE @.image_uri]
            ELSE @]

\* variant of update_build_status: the cache only, whatever the workspace
update_build_status_cache_only(t, build_status, wasm_path, image_url, error, ok) ==
    /\ tasks' = [tasks EXCEPT ![t] =
                    IF @.cached
                    THEN UpdateCached(@, build_status, wasm_path, image_url, error)
                    ELSE @]
    /\ UNCHANGED <<store, wsmap>>

\* TaskManager.update_build_status: cache first, then the store when the task
\* has a workspace; ok is whether the store accepts the write
update_build_status(t, build_status, wasm_path, image_url, error, ok) ==
    /\ tasks' = [tasks EXCEPT ![t] =
                    IF @.cached
                    THEN UpdateCached(@, build_status, wasm_path, image_url, error)
                    ELSE @]
    /\ store' = IF Truthy(wsmap[t])
                THEN UpdateItem(store, wsmap[t], t, build_status, wasm_path,
                                image_url, error, ok)
                ELSE store
    /\ UNCHANGED wsmap

\* a status update issued by a pipeline: the call, and the status noted in
\* the run's history
Issue(t, build_status, wasm_path, image_url, error, ok) ==
    /\ update_build_status(t, build_status, wasm_path, image_url, error, ok)
    /\ issued' = [issued EXCEPT ![t] = Append(@, build_status)]
    /\ updates' = [updates EXCEPT ![t] =
                      Append(@, [status |-> build_status, wasm_path |-> wasm_path,
                                 image_url |-> image_url])]

\* TaskManager.create_task: uuid4, cache entry, workspace map and put
create_task(t, workspace_id, app_name, source_code_path, ok) ==
    /\ tasks' = [tasks EXCEPT ![t] =
                    [cached |-> TRUE, status |-> "pending", created_at |-> now,
                     updated_at |-> now, result |-> NoResult,
                     error |-> None, workspace_id |-> workspace_id,
                     app_name |-> app_name]]
    /\ wsmap' = IF Truthy(workspace_id)
                THEN [wsmap EXCEPT ![t] = workspace_id] ELSE wsmap
    /\ store' = IF Truthy(workspace_id)
                THEN PutItem(store, workspace_id, t,
                             IF Truthy(app_name) THEN app_name ELSE <<"unknown">>,
                             IF Truthy(source_code_path) THEN source_code_path ELSE <<>>,
                             ok)
                ELSE store

\* str.upper() on the status texts a record can carry
upper(status_str) ==
    CASE status_str = "done" -> "DONE"
      [] status_str = "completed" -> "COMPLETED"
      [] status_str = "running" -> "RUNNING"
      [] OTHER -> status_str

\* BuildTaskItem.from_dynamodb_item, the status part: missing -> PENDING,
\* upper-cased, legacy values of the adjacent service mapped, unknown values
\* -> PENDING
NormalizeStatus(status_str) ==
    LET normalized_status == upper(IF status_str = "<absent>" THEN "PENDING"
                                   ELSE status_str)
    IN CASE normalized_status \in {"COMPLETED", "SUCCESS"} -> "DONE"
         [] normalized_status \in {"RUNNING", "IN_PROGRESS"} -> "BUILDING"
         [] normalized_status \in BuildStatus -> normalized_status
         [] OTHER -> "PENDING"

\* str.replace(old, "", 1): the first occurrence of the token is removed,
\* wherever it stands
ReplaceFirst(text, old) ==
    IF \E i \in 1..Len(text) : text[i] = old
    THEN LET i == CHOOSE i \in 1..Len(text) :
                     text[i] = old /\ \A j \in 1..(i - 1) : text[j] # old
         IN SubSeq(text, 1, i - 1) \o SubSeq(text, i + 1, Len(text))
    ELSE text

\* the item the table returns for a record: its key texts and its attributes
Item(k, rec) ==
    [PK |-> <<k.pkp>> \o k.ws, SK |-> <<k.skp, ToString(k.tid)>>] @@ rec

\* BuildTaskItem.to_dynamodb_item: the optional attributes are written only
\* when truthy
to_dynamodb_item(it) ==
    [PK |-> <<"ws#">> \o it.workspace_id, SK |-> <<"build#">> \o it.task_id,
     exists |-> TRUE, Type |-> <<"BuildTask">>, AppName |-> it.app_name,
     Status |-> it.status, SourceCodePath |-> it.source_code_path,
     CreatedAt |-> isoformat(it.created_at),
     UpdatedAt |-> isoformat(it.updated_at),
     WasmPath |-> IF Truthy(it.wasm_path) THEN it.wasm_path ELSE None,
     ImageUrl |-> IF Truthy(it.image_url) THEN it.image_url ELSE None,
     ErrorMessage |-> IF Truthy(it.error_message) THEN it.error_message ELSE None]

\* BuildTaskItem.from_dynamodb_item: key prefixes removed with replace,
\* defaults applied, timestamps parsed
from_dynamodb_item(item) ==
    [workspace_id |-> ReplaceFirst(ReplaceFirst(item.PK, "ws#"), "WS#"),
     task_id |-> ReplaceFirst(ReplaceFirst(item.SK, "build#"), "BUILD#"),
     app_name |-> IF Truthy(item.AppName) THEN item.AppName ELSE <<"unknown">>,
     status |-> NormalizeStatus(item.Status),
     created_at |-> IF Truthy(item.CreatedAt) THEN fromisoformat(item.CreatedAt)
                    ELSE now,
     updated_at |-> IF Truthy(item.UpdatedAt) THEN fromisoformat(item.UpdatedAt)
                    ELSE now,
     source_code_path |-> IF Truthy(item.SourceCodePath) THEN item.SourceCodePath
                          ELSE <<>>,
     wasm_path |-> item.WasmPath, image_url |-> item.ImageUrl,
     error_message |-> item.ErrorMessage]

\* from_dynamodb_item returns instead of raising: a timestamp that is
\* present parses
Converts(item) ==
    /\ Truthy(item.CreatedAt) => Parses(item.CreatedAt)
    /\ Truthy(item.UpdatedAt) => Parses(item.UpdatedAt)

\* the probe order of DynamoDBService.get_task: pk outer loop, sk inner loop
ProbeKeys(w, t) ==
    <<Key("ws#", w, "build#", t), Key("ws#", w, "BUILD#", t),
      Key("WS#", w, "build#", t), Key("WS#", w, "BUILD#", t)>>

\* DynamoDBService.get_task with every get_item answered: the first hit
\* that converts (an exception of the conversion moves on to the next probe)
DynamoGetTask(S, w, t) ==
    LET probes == ProbeKeys(w, t)
        hits == {i \in 1..Len(probes) :
                    /\ probes[i] \in DOMAIN S /\ S[probes[i]].exists
                    /\ Converts(Item(probes[i], S[probes[i]]))}
    IN
    IF hits = {}
    THEN [found |-> FALSE]
    ELSE LET i == CHOOSE i \in hits : \A j \in hits : i <= j
         IN [found |-> TRUE, item |-> from_dynamodb_item(Item(probes[i], S[probes[i]]))]

\* TaskManager._build_task_item_to_task
build_task_item_to_task(db_item) ==
    [cached |-> TRUE,
     status |-> BUILD_STATUS_TO_TASK_STATUS(db_item.status),
     created_at |-> db_item.created_at,
     updated_at |-> db_item.updated_at,
     result |-> IF Truthy(db_item.wasm_path) \/ Truthy(db_item.image_url)
                THEN [set |-> TRUE,
                      wasm_path |-> IF Truthy(db_item.wasm_path)
                                    THEN db_item.wasm_path ELSE None,
                      image_uri |-> IF Truthy(db_item.image_url)
                                    THEN db_item.image_url ELSE None]
                ELSE NoResult,
     error |-> db_item.error_message,
     workspace_id |-> db_item.workspace_id,
     app_name |-> db_item.app_name]

\* TaskManager.get_task(task_id, workspace_id) of an instance whose cache is
\* empty: the store is read and the record converted; NoTask stands for None
get_task_fresh(S, t, workspace_id) ==
    IF ~Truthy(workspace_id) THEN NoTask
    ELSE LET got == DynamoGetTask(S, workspace_id, t) IN
         IF got.found THEN build_task_item_to_task(got.item) ELSE NoTask

\* ------------------------------------------------------- the HTTP handlers
\* POST /build: preliminary prefix, create_task, add_task, 202
build(w, app_name, fn, ok) ==
    /\ next_id < MaxTasks
    /\ LET t == next_id + 1 IN
        /\ create_task(t, w, app_name, get_source_prefix(w, PrelimId(t)), ok)
        /\ run' = [run EXCEPT ![t] =
                      [NoRun EXCEPT !.kind = "build", !.pc = "start",
                                    !.filename = fn, !.ws = w]]
        /\ responded' = [responded EXCEPT ![t] = TRUE]
        /\ next_id' = t
    /\ UNCHANGED <<now, aux, core_endpoint, issued, updates, stages>>

\* POST /build-and-push
build_and_push(w, app_name, fn, ok) ==
    /\ next_id < MaxTasks
    /\ LET t == next_id + 1 IN
        /\ create_task(t, w, app_name, get_source_prefix(w, PrelimId(t)), ok)
        /\ run' = [run EXCEPT ![t] =
                      [NoRun EXCEPT !.kind = "build_and_push", !.pc = "start",
                                    !.filename = fn, !.ws = w]]
        /\ responded' = [responded EXCEPT ![t] = TRUE]
        /\ next_id' = t
    /\ UNCHANGED <<now, aux, core_endpoint, issued, updates, stages>>

\* POST /push: the JSON body may carry any workspace_id string and an
\* optional s3_source_path
push(w, s3_source_path, ok) ==
    /\ next_id < MaxTasks
    /\ LET t == next_id + 1 IN
        /\ create_task(t, w, None, s3_source_path, ok)
        /\ run' = [run EXCEPT ![t] =
                      [NoRun EXCEPT !.kind = "push", !.pc = "start", !.ws = w,
                                    !.s3_source_path = s3_source_path]]
        /\ responded' = [responded EXCEPT ![t] = TRUE]
        /\ next_id' = t
    /\ UNCHANGED <<now, aux, core_endpoint, issued, updates, stages>>

\* ------------------------------------------------------------ the pipelines
ExceptPrefix(kind) ==
    CASE kind = "build" -> "Build task failed with unexpected error: "
      [] kind = "push" -> "Push task failed with unexpected error: "
      [] OTHER -> "Build and push task failed with unexpected error: "

\* the run after its return: its arguments and locals are gone; what stays
\* is which pipeline it was and the temporary directory it left on disk
Returned(r) ==
    [NoRun EXCEPT !.kind = r.kind, !.pc = "returned", !.ws = r.ws,
                  !.temp_dir = r.temp_dir]

\* variant of ExceptHandler: a fixed message, str(e) dropped
ExceptHandler_notext(t, e, ok) ==
    /\ Issue(t, "FAILED", None, None,
                           <<ExceptPrefix(run[t].kind)>>, ok)
    /\ run' = [run EXCEPT ![t] = Returned(@)]

\* the except clause of a pipeline: FAILED with the exception text, no re-raise
ExceptHandler(t, e, ok) ==
    /\ Issue(t, "FAILED", None, None,
                           Fmt(ExceptPrefix(run[t].kind), e), ok)
    /\ run' = [run EXCEPT ![t] = Returned(@)]

\* variant of Terminal: the return after the update is missing, the run
\* stays where it is
Terminal_noreturn(t, build_status, wasm_path, image_url, error, ok) ==
    /\ Issue(t, build_status, wasm_path, image_url, error, ok)
    /\ run' = run

\* variant of Terminal: a failure branch returns without its status update
Terminal_silent(t, build_status, wasm_path, image_url, error, ok) ==
    /\ IF build_status = "FAILED"
       THEN UNCHANGED <<tasks, wsmap, store, issued, updates>>
       ELSE Issue(t, build_status, wasm_path, image_url, error, ok)
    /\ run' = [run EXCEPT ![t] = Returned(@)]

\* a terminal update followed by the run's return
Terminal(t, build_status, wasm_path, image_url, error, ok) ==
    /\ Issue(t, build_status, wasm_path, image_url, error, ok)
    /\ run' = [run EXCEPT ![t] = Returned(@)]

\* bookkeeping: the stage that was called, its outcome, and str(e) if it raised
Stage(t, name, r) ==
    stages' = [stages EXCEPT ![t] =
        Append(@, [name |-> name,
                   outcome |-> IF r.raised THEN "raised"
                               ELSE IF r.success THEN "ok" ELSE "fail",
                   exc |-> r.exc, value |-> r.value])]

Supported(fn) == fn \in {"app.zip", "app.py"}

\* run_build_task / run_build_and_push_task: the first status update
BuildStart(t, ok) ==
    /\ run[t].kind \in {"build", "build_and_push"}
    /\ run[t].pc = "start"
    /\ Issue(t, "BUILDING", None, None, None, ok)
    /\ run' = [run EXCEPT ![t].pc = "ingest"]
    /\ UNCHANGED <<now, aux, core_endpoint, next_id, stages, responded>>

\* work directory, then handle_zip / handle_single_py by extension; filename
\* is not read again after this step; py_files is whether the materialised
\* tree holds a *.py file at its root (a single-file upload always does)
Ingest(t, r, py_files, ok) ==
    /\ run[t].pc = "ingest"
    /\ run[t].filename = "app.py" => py_files
    /\ IF r.raised
       THEN ExceptHandler(t, r.exc, ok) /\ Stage(t, "ingest", r)
       ELSE IF ~Supported(run[t].filename)
       THEN /\ Terminal(t, "FAILED", None, None,
                        <<"Unsupported file type: ", run[t].filename,
                          ". Only .py and .zip files are supported.">>, ok)
            /\ UNCHANGED stages
       ELSE IF ~r.success
       THEN Terminal(t, "FAILED", None, None, r.error, ok) /\ Stage(t, "ingest", r)
       ELSE /\ run' = [run EXCEPT ![t].pc = "upload_source", ![t].filename = "",
                                  ![t].py_files = py_files]
            /\ Stage(t, "ingest", r)
            /\ UNCHANGED <<tasks, wsmap, store, issued, updates>>
    /\ UNCHANGED <<now, aux, core_endpoint, next_id, responded>>

\* variant of UploadSource: the local path is taken whatever the endpoint
UploadSource_local(t, r, ok) ==
    /\ run[t].pc = "upload_source"
    /\ Stage(t, "upload_source", r)
    /\ IF ~r.success
       THEN Terminal(t, "FAILED", None, None,
                     Fmt("Failed to upload source to S3: ", r.error), ok)
       ELSE /\ run' = [run EXCEPT ![t].pc = "typecheck",
                                  ![t].s3_source_path = r.value]
            /\ UNCHANGED <<tasks, wsmap, store, issued, updates>>
    /\ UNCHANGED <<now, aux, core_endpoint, next_id, responded>>

\* upload_source_directory, then the routing on is_configured()
UploadSource(t, r, ok) ==
    /\ run[t].pc = "upload_source"
    /\ Stage(t, "upload_source", r)
    /\ IF ~r.success
       THEN Terminal(t, "FAILED", None, None,
                     Fmt("Failed to upload source to S3: ", r.error), ok)
       ELSE /\ run' = [run EXCEPT ![t].pc =
                          IF core_endpoint THEN "core_build" ELSE "typecheck",
                                  ![t].s3_source_path = r.value]
            /\ UNCHANGED <<tasks, wsmap, store, issued, updates>>
    /\ UNCHANGED <<now, aux, core_endpoint, next_id, responded>>

\* CoreServiceClient.build on the compile-service path
CoreBuild(t, r, ok) ==
    /\ run[t].pc = "core_build"
    /\ Stage(t, "core_build", r)
    /\ IF run[t].kind = "build"
       THEN IF r.success
            THEN Terminal(t, "DONE", r.value, None, None, ok)
            ELSE Terminal(t, "FAILED", None, None, r.error, ok)
       ELSE IF ~r.success
            THEN Terminal(t, "FAILED", None, None,
                          Fmt("Build failed: ", r.error), ok)
            ELSE /\ Issue(t, "PUSHING", r.value, None, None, ok)
                 /\ run' = [run EXCEPT ![t].pc = "core_push", ![t].wasm = r.value]
    /\ UNCHANGED <<now, aux, core_endpoint, next_id, responded>>

\* variant of CorePush: the terminal update of a build-and-push run passes
\* the image URL only
CorePush_nowasm(t, r, ok) ==
    /\ run[t].pc = "core_push"
    /\ Stage(t, "core_push", r)
    /\ IF r.success
       THEN Terminal(t, "DONE", None, r.value, None, ok)
       ELSE Terminal(t, "FAILED", None, None,
                     IF run[t].kind = "push" THEN r.error
                     ELSE Fmt("Push failed: ", r.error), ok)
    /\ UNCHANGED <<now, aux, core_endpoint, next_id, responded>>

\* CoreServiceClient.push on the compile-service path
CorePush(t, r, ok) ==
    /\ run[t].pc = "core_push"
    /\ Stage(t, "core_push", r)
    /\ IF run[t].kind = "push"
       THEN IF r.success
            THEN Terminal(t, "DONE", None, r.value, None, ok)
            ELSE Terminal(t, "FAILED", None, None, r.error, ok)
       ELSE IF r.success
            THEN Terminal(t, "DONE", run[t].wasm, r.value, None, ok)
            ELSE Terminal(t, "FAILED", None, None,
                          Fmt("Push failed: ", r.error), ok)
    /\ UNCHANGED <<now, aux, core_endpoint, next_id, responded>>

\* the type-check gate of the local path: skipped when the tree holds no
\* *.py file at its root
TypeCheck(t, r, ok) ==
    /\ run[t].pc = "typecheck"
    /\ IF ~run[t].py_files
       THEN /\ run' = [run EXCEPT ![t].pc = "local_build"]
            /\ UNCHANGED <<tasks, wsmap, store, issued, updates, stages>>
       ELSE /\ Stage(t, "typecheck", r)
            /\ IF r.raised
               THEN ExceptHandler(t, r.exc, ok)
               ELSE IF ~r.success
               THEN Terminal(t, "FAILED", None, None,
                             Fmt("MyPy validation failed:\n", r.error), ok)
               ELSE /\ run' = [run EXCEPT ![t].pc = "local_build"]
                    /\ UNCHANGED <<tasks, wsmap, store, issued, updates>>
    /\ UNCHANGED <<now, aux, core_endpoint, next_id, responded>>

\* BuildService.full_build on the local path
LocalBuild(t, r, ok) ==
    /\ run[t].pc = "local_build"
    /\ Stage(t, "local_build", r)
    /\ IF r.success
       THEN /\ run' = [run EXCEPT ![t].pc = "upload_artifact", ![t].wasm = r.value]
            /\ UNCHANGED <<tasks, wsmap, store, issued, updates>>
       ELSE Terminal(t, "FAILED", None, None,
                     IF run[t].kind = "build" THEN r.error
                     ELSE Fmt("Build failed: ", r.error), ok)
    /\ UNCHANGED <<now, aux, core_endpoint, next_id, responded>>

\* upload_artifact: on failure the local wasm path is kept and the run goes on
UploadArtifact(t, r, ok) ==
    /\ run[t].pc = "upload_artifact"
    /\ Stage(t, "upload_artifact", r)
    /\ LET wasm_s3_path == IF r.success THEN r.value ELSE run[t].wasm IN
       IF run[t].kind = "build"
       THEN Terminal(t, "DONE", wasm_s3_path, None, None, ok)
       ELSE /\ Issue(t, "PUSHING", wasm_s3_path, None, None, ok)
            /\ run' = [run EXCEPT ![t].pc = "local_push", ![t].wasm = wasm_s3_path]
    /\ UNCHANGED <<now, aux, core_endpoint, next_id, responded>>

\* variant of PushStart: the push run announces itself with the build status
PushStart_building(t, ok) ==
    /\ run[t].kind = "push"
    /\ run[t].pc = "start"
    /\ Issue(t, "BUILDING", None, None, None, ok)
    /\ run' = [run EXCEPT ![t].pc =
                  IF core_endpoint /\ Truthy(run[t].s3_source_path)
                  THEN "core_push" ELSE "push_prepare"]
    /\ UNCHANGED <<now, aux, core_endpoint, next_id, stages, responded>>

\* run_push_task: the first status update and the routing
PushStart(t, ok) ==
    /\ run[t].kind = "push"
    /\ run[t].pc = "start"
    /\ Issue(t, "PUSHING", None, None, None, ok)
    /\ run' = [run EXCEPT ![t].pc =
                  IF core_endpoint /\ Truthy(run[t].s3_source_path)
                  THEN "core_push" ELSE "push_prepare"]
    /\ UNCHANGED <<now, aux, core_endpoint, next_id, stages, responded>>

\* local push path: make sure a source directory exists, downloading the
\* source into a temporary directory when the given one is absent
PushPrepare(t, app_dir_exists, mk, r, ok) ==
    /\ run[t].pc = "push_prepare"
    /\ IF ~app_dir_exists /\ Truthy(run[t].s3_source_path)
       THEN IF mk.raised
            THEN ExceptHandler(t, mk.exc, ok) /\ Stage(t, "mkdtemp", mk)
            ELSE /\ Stage(t, "download", r)
                 /\ IF ~r.success
                    THEN /\ Issue(t, "FAILED", None, None,
                                Fmt("Failed to download from S3: ", r.error), ok)
                         /\ run' = [run EXCEPT ![t] =
                                       Returned([@ EXCEPT !.temp_dir = "created"])]
                    ELSE /\ run' = [run EXCEPT ![t].pc = "local_push",
                                               ![t].temp_dir = "created"]
                         /\ UNCHANGED <<tasks, wsmap, store, issued, updates>>
       ELSE IF ~app_dir_exists
       THEN /\ Terminal(t, "FAILED", None, None,
                        <<"Application directory not found: ", "app_dir">>, ok)
            /\ UNCHANGED stages
       ELSE /\ run' = [run EXCEPT ![t].pc = "local_push"]
            /\ UNCHANGED <<tasks, wsmap, store, issued, updates, stages>>
    /\ UNCHANGED <<now, aux, core_endpoint, next_id, responded>>

\* PushService.full_push; the push-only run removes its temporary directory
\* in the finally clause
LocalPush(t, r, ok) ==
    /\ run[t].pc = "local_push"
    /\ Stage(t, "local_push", r)
    /\ LET removed == IF run[t].temp_dir = "created" THEN "removed"
                      ELSE run[t].temp_dir
           status == IF r.raised \/ ~r.success THEN "FAILED" ELSE "DONE"
           wasm == IF r.raised \/ ~r.success \/ run[t].kind = "push" THEN None
                   ELSE run[t].wasm
           image == IF r.raised \/ ~r.success THEN None ELSE r.value
           error == IF r.raised THEN Fmt(ExceptPrefix(run[t].kind), r.exc)
                    ELSE IF r.success THEN None
                    ELSE IF run[t].kind = "push" THEN r.error
                    ELSE Fmt("Push failed: ", r.error)
       IN /\ Issue(t, status, wasm, image, error, ok)
          /\ run' = [run EXCEPT ![t] = Returned([@ EXCEPT !.temp_dir = removed])]
    /\ UNCHANGED <<now, aux, core_endpoint, next_id, responded>>

\* ------------------------------------------------------- the specification
StoreOutcomes == BOOLEAN

Next ==
    \/ \E w \in Workspaces, a \in AppNames, fn \in Filenames, ok \in StoreOutcomes :
          build(w, a, fn, ok)
    \/ \E w \in Workspaces, a \in AppNames, fn \in Filenames, ok \in StoreOutcomes :
          build_and_push(w, a, fn, ok)
    \/ \E w \in Workspaces \cup {EmptyWs}, s \in SourcePaths, ok \in StoreOutcomes :
          push(w, s, ok)
    \/ \E t \in TaskIds, ok \in StoreOutcomes : BuildStart(t, ok)
    \/ \E t \in TaskIds, ok \in StoreOutcomes : PushStart(t, ok)
    \/ \E t \in TaskIds, ok \in StoreOutcomes :
          \E r \in FileHandlerResults(t), py \in BOOLEAN : Ingest(t, r, py, ok)
    \/ \E t \in TaskIds, ok \in StoreOutcomes :
          \E r \in UploadSourceResults(run[t].ws, t) : UploadSource(t, r, ok)
    \/ \E t \in TaskIds, ok \in StoreOutcomes :
          \E r \in CoreBuildResults(t) : CoreBuild(t, r, ok)
    \/ \E t \in TaskIds, ok \in StoreOutcomes :
          \E r \in CorePushResults(t) : CorePush(t, r, ok)
    \/ \E t \in TaskIds, ok \in StoreOutcomes :
          \E r \in ValidationResults : TypeCheck(t, r, ok)
    \/ \E t \in TaskIds, ok \in StoreOutcomes :
          \E r \in FullBuildResults(t) : LocalBuild(t, r, ok)
    \/ \E t \in TaskIds, ok \in StoreOutcomes :
          \E r \in UploadArtifactResults(t) : UploadArtifact(t, r, ok)
    \/ \E t \in TaskIds, ok \in StoreOutcomes :
          \E ex \in BOOLEAN, mk \in MkdtempResults, r \in DownloadResults :
              PushPrepare(t, ex, mk, r, ok)
    \/ \E t \in TaskIds, ok \in StoreOutcomes :
          \E r \in FullPushResults(t) : LocalPush(t, r, ok)

Spec == Init /\ [][Next]_vars

\* ------------------------------------- the Task Manager called directly
\* TASK_STATUS_TO_BUILD_STATUS
TASK_STATUS_TO_BUILD_STATUS(ts) ==
    CASE ts = "pending" -> "PENDING"
      [] ts = "running" -> "BUILDING"
      [] ts = "completed" -> "DONE"
      [] ts = "failed" -> "FAILED"
      [] OTHER -> "PENDING"

\* variant of update_status: result and error are kept when the argument is
\* None, as update_build_status does
update_status_merge(t, status, result, error, wasm_path, image_url, ok) ==
    /\ tasks' = [tasks EXCEPT ![t] =
                    IF @.cached
                    THEN [@ EXCEPT !.status = status, !.updated_at = now,
                                   !.result = IF result.set THEN result ELSE @,
                                   !.error = IF Truthy(error) THEN error ELSE @]
                    ELSE @]
    /\ store' = IF Truthy(wsmap[t])
                THEN UpdateItem(store, wsmap[t], t,
                        TASK_STATUS_TO_BUILD_STATUS(status),
                        IF result.set /\ ~Truthy(wasm_path)
                        THEN result.wasm_path ELSE wasm_path,
                        IF result.set /\ ~Truthy(image_url)
                        THEN result.image_uri ELSE image_url,
                        error, ok)
                ELSE store
    /\ UNCHANGED wsmap

\* TaskManager.update_status: result and error are assigned as given; the
\* store gets wasm_path / image_url from the arguments or else from the result
update_status(t, status, result, error, wasm_path, image_url, ok) ==
    /\ tasks' = [tasks EXCEPT ![t] =
                    IF @.cached
                    THEN [@ EXCEPT !.status = status, !.updated_at = now,
                                   !.result = result, !.error = error]
                    ELSE @]
    /\ store' = IF Truthy(wsmap[t])
                THEN UpdateItem(store, wsmap[t], t,
                        TASK_STATUS_TO_BUILD_STATUS(status),
                        IF result.set /\ ~Truthy(wasm_path)
                        THEN result.wasm_path ELSE wasm_path,
                        IF result.set /\ ~Truthy(image_url)
                        THEN result.image_uri ELSE image_url,
                        error, ok)
                ELSE store
    /\ UNCHANGED wsmap

\* variant of UpdateReturn: True whatever the task id
UpdateReturn_true(t) == TRUE

\* the value update_status and update_build_status return
UpdateReturn(t) == tasks[t].cached \/ wsmap[t] # None

\* variant of get_task: a store hit is returned without being cached
get_task_nocache(t, workspace_id) ==
    LET ws_id == IF Truthy(workspace_id) THEN workspace_id ELSE wsmap[t]
        task == IF tasks[t].cached THEN tasks[t] ELSE get_task_fresh(store, t, ws_id)
    IN  /\ ret' = [op |-> "get_task", tid |-> t, ws |-> workspace_id, value |-> task]
        /\ UNCHANGED <<tasks, wsmap>>

\* TaskManager.get_task: the cache first, then the store under the given or
\* the mapped workspace; a store hit is cached
get_task(t, workspace_id) ==
    IF tasks[t].cached
    THEN /\ ret' = [op |-> "get_task", tid |-> t, ws |-> workspace_id, value |-> tasks[t]]
         /\ UNCHANGED <<tasks, wsmap>>
    ELSE LET ws_id == IF Truthy(workspace_id) THEN workspace_id ELSE wsmap[t]
             task == get_task_fresh(store, t, ws_id)
         IN IF task.cached
            THEN /\ tasks' = [tasks EXCEPT ![t] = task]
                 /\ wsmap' = [wsmap EXCEPT ![t] = ws_id]
                 /\ ret' = [op |-> "get_task", tid |-> t, ws |-> workspace_id, value |-> task]
            ELSE /\ ret' = [op |-> "get_task", tid |-> t, ws |-> workspace_id, value |-> NoTask]
                 /\ UNCHANGED <<tasks, wsmap>>

\* the four queries of DynamoDBService.list_tasks, in the order of its loops
QueryVariants == <<[pkp |-> "ws#", skp |-> "build#"], [pkp |-> "ws#", skp |-> "BUILD#"],
                   [pkp |-> "WS#", skp |-> "build#"], [pkp |-> "WS#", skp |-> "BUILD#"]>>

\* DynamoDBService.list_tasks: answered is the set of queries that did not
\* raise; the keys of the items it collects, query by query. An item whose
\* conversion raises ends the loop over the items of its query (the
\* conversion runs inside the try block of the query).
ListedKeys(S, w, answered) ==
    LET slot(n) == Key(QueryVariants[((n - 1) \div MaxTasks) + 1].pkp, w,
                       QueryVariants[((n - 1) \div MaxTasks) + 1].skp,
                       ((n - 1) % MaxTasks) + 1)
        slots == [n \in 1..(4 * MaxTasks) |-> slot(n)]
        hit(k) == /\ k \in DOMAIN S
                  /\ S[k].exists
                  /\ \E i \in answered :
                        QueryVariants[i].pkp = k.pkp /\ QueryVariants[i].skp = k.skp
                  /\ \A u \in 1..k.tid :
                        LET e == Key(k.pkp, w, k.skp, u)
                        IN S[e].exists => Converts(Item(e, S[e]))
    IN SelectSeq(slots, hit)

\* the task id a listed item is cached under
TaskIdOf(db_item) == CHOOSE t \in TaskIds : <<ToString(t)>> = db_item.task_id

\* TaskManager.list_tasks: every item becomes a Task, replaces the cache
\* entry of its task id and maps the id to the workspace asked for
list_tasks(w, answered) ==
    LET keys == ListedKeys(store, w, answered)
        listed == [i \in 1..Len(keys) |->
                      build_task_item_to_task(
                          from_dynamodb_item(Item(keys[i], store[keys[i]])))]
        last(t) == CHOOSE i \in 1..Len(keys) :
                      /\ keys[i].tid = t
                      /\ \A j \in 1..Len(keys) : keys[j].tid = t => j <= i
        ids == {keys[i].tid : i \in 1..Len(keys)}
    IN /\ tasks' = [t \in TaskIds |-> IF t \in ids THEN listed[last(t)] ELSE tasks[t]]
       /\ wsmap' = [t \in TaskIds |-> IF t \in ids THEN w ELSE wsmap[t]]
       /\ ret' = [op |-> "list_tasks", ws |-> w, answered |-> answered,
                  keys |-> keys, value |-> listed]

\* what a direct call of the Task Manager leaves alone
pipelines == <<core_endpoint, run, stages, responded, conv>>

\* datetime.utcnow() moves on
Tick ==
    /\ now < MaxClock
    /\ now' = now + 1
    /\ UNCHANGED <<tasks, wsmap, store, next_id, issued, updates, ret, pipelines>>

CallCreateTask(w, app_name, source_code_path, ok) ==
    /\ next_id < MaxTasks
    /\ LET t == next_id + 1 IN
        /\ create_task(t, w, app_name, source_code_path, ok)
        /\ next_id' = t
        /\ ret' = [op |-> "create_task", tid |-> t, value |-> t]
    /\ UNCHANGED <<now, issued, updates, pipelines>>

CallUpdateStatus(t, status, result, error, ok) ==
    /\ update_status(t, status, result, error, None, None, ok)
    /\ ret' = [op |-> "update_status", tid |-> t, value |-> UpdateReturn(t),
               status |-> status, result |-> result, error |-> error]
    /\ UNCHANGED <<now, next_id, issued, updates, pipelines>>

CallUpdateBuildStatus(t, build_status, wasm_path, image_url, error, ok) ==
    /\ update_build_status(t, build_status, wasm_path, image_url, error, ok)
    /\ ret' = [op |-> "update_build_status", tid |-> t, value |-> UpdateReturn(t),
               status |-> build_status]
    /\ UNCHANGED <<now, next_id, issued, updates, pipelines>>

CallGetTask(t, w) ==
    /\ get_task(t, w)
    /\ UNCHANGED <<now, store, next_id, issued, updates, pipelines>>

CallListTasks(w, answered) ==
    /\ list_tasks(w, answered)
    /\ UNCHANGED <<now, store, next_id, issued, updates, pipelines>>

\* the arguments the direct calls are made with: update_status as its callers
\* use it (no result and no error, a result, an error), update_build_status
\* with an artifact or with an error
StatusUpdates ==
    {[status |-> "pending", result |-> NoResult, error |-> None],
     [status |-> "running", result |-> NoResult, error |-> None],
     [status |-> "completed",
      result |-> [set |-> TRUE, wasm_path |-> <<"s3://bucket/a.wasm">>,
                  image_uri |-> None],
      error |-> None],
     [status |-> "failed", result |-> NoResult, error |-> <<"error">>]}

BuildStatusUpdates ==
    {[status |-> "DONE", wasm_path |-> <<"s3://bucket/a.wasm">>, error |-> None],
     [status |-> "FAILED", wasm_path |-> None, error |-> <<"error">>]}

\* direct calls on a store that accepts every write
NextTaskManager ==
    \/ \E w \in Workspaces \cup {None} : CallCreateTask(w, None, None, TRUE)
    \/ \E t \in TaskIds, u \in StatusUpdates :
          CallUpdateStatus(t, u.status, u.result, u.error, TRUE)
    \/ \E t \in TaskIds, u \in BuildStatusUpdates :
          CallUpdateBuildStatus(t, u.status, u.wasm_path, None, u.error, TRUE)
    \/ \E t \in TaskIds, w \in Workspaces \cup {None} : CallGetTask(t, w)
    \/ \E w \in Workspaces, answered \in {{}, 1..4} : CallListTasks(w, answered)

\* the Task Manager of a process that runs no pipeline
InitTaskManager == Init /\ ~core_endpoint

SpecTaskManager == InitTaskManager /\ [][NextTaskManager]_vars

\* ------------------------------------------------------------- properties
Last(q) == q[Len(q)]

IsPrefix(p, q) == Len(p) <= Len(q) /\ SubSeq(q, 1, Len(p)) = p

TerminalStatuses == {"DONE", "FAILED"}

\* the status histories a pipeline may issue after the PENDING of create_task
AllowedHistories(kind) ==
    CASE kind = "build" ->
            {<<"BUILDING", "DONE">>, <<"BUILDING", "FAILED">>}
      [] kind = "push" ->
            {<<"PUSHING", "DONE">>, <<"PUSHING", "FAILED">>}
      [] kind = "build_and_push" ->
            {<<"BUILDING", "PUSHING", "DONE">>, <<"BUILDING", "PUSHING", "FAILED">>,
             <<"BUILDING", "FAILED">>}
      [] OTHER -> {<<>>}

Started(t) == run[t].kind # "none"

\* C1: every status a pipeline issues follows an allowed edge: a build run
\* goes PENDING -> BUILDING -> DONE | FAILED, a push run PENDING -> PUSHING ->
\* DONE | FAILED, a build-and-push run PENDING -> BUILDING -> PUSHING ->
\* DONE | FAILED or PENDING -> BUILDING -> FAILED; so a build run never issues
\* PUSHING, a push run never BUILDING, and build-and-push never reaches DONE
\* without PUSHING before it.
C1_AllowedEdges ==
    \A t \in TaskIds :
        /\ \E h \in AllowedHistories(run[t].kind) : IsPrefix(issued[t], h)
        /\ run[t].kind = "build" =>
              \A i \in 1..Len(issued[t]) : issued[t][i] # "PUSHING"
        /\ run[t].kind = "push" =>
              \A i \in 1..Len(issued[t]) : issued[t][i] # "BUILDING"
        /\ run[t].kind = "build_and_push" =>
              \A i \in 1..Len(issued[t]) :
                  issued[t][i] = "DONE" => i > 1 /\ issued[t][i - 1] = "PUSHING"

C1_Witness ==
    \E t \in TaskIds :
        /\ run[t].kind = "build_and_push"
        /\ issued[t] = <<"BUILDING", "PUSHING", "DONE">>

\* C2: once a pipeline has issued DONE or FAILED it issues no further status
\* update in that run: a run issues at most one terminal update, the one of
\* its exception handler included, and it is the last update of the run.
C2_OneTerminalUpdate ==
    \A t \in TaskIds :
        \A i \in 1..Len(issued[t]) :
            issued[t][i] \in TerminalStatuses =>
                /\ i = Len(issued[t])
                /\ run[t].pc = "returned"

C2_Witness ==
    \E t \in TaskIds :
        /\ run[t].pc = "returned"
        /\ issued[t] = <<"BUILDING", "PUSHING", "FAILED">>
        /\ Last(stages[t]).outcome = "raised"

\* how far a run has come; every step of a pipeline moves it forward
Rank(pc) ==
    CASE pc = "none" -> 0
      [] pc = "start" -> 1
      [] pc \in {"ingest", "push_prepare"} -> 2
      [] pc = "upload_source" -> 3
      [] pc \in {"core_build", "typecheck"} -> 4
      [] pc = "local_build" -> 5
      [] pc = "upload_artifact" -> 6
      [] pc \in {"core_push", "local_push"} -> 7
      [] pc = "returned" -> 8
      [] OTHER -> 0

\* the steps a started run can take, each with whatever its external call
\* returns or raises
PipelineStep(t) ==
    \E ok \in StoreOutcomes :
        \/ BuildStart(t, ok)
        \/ PushStart(t, ok)
        \/ \E r \in FileHandlerResults(t), py \in BOOLEAN : Ingest(t, r, py, ok)
        \/ \E r \in UploadSourceResults(run[t].ws, t) : UploadSource(t, r, ok)
        \/ \E r \in CoreBuildResults(t) : CoreBuild(t, r, ok)
        \/ \E r \in CorePushResults(t) : CorePush(t, r, ok)
        \/ \E r \in ValidationResults : TypeCheck(t, r, ok)
        \/ \E r \in FullBuildResults(t) : LocalBuild(t, r, ok)
        \/ \E r \in UploadArtifactResults(t) : UploadArtifact(t, r, ok)
        \/ \E ex \in BOOLEAN, mk \in MkdtempResults, r \in DownloadResults :
              PushPrepare(t, ex, mk, r, ok)
        \/ \E r \in FullPushResults(t) : LocalPush(t, r, ok)

\* C3: every started run ends with its task set to DONE or FAILED, given that
\* each external call returns or raises: a run that has not returned can
\* always take its next step, every step moves the run forward through a
\* finite sequence of positions, and no run returns with its task left in
\* PENDING, BUILDING or PUSHING.
C3_RunsEndTerminal ==
    /\ [](\A t \in TaskIds :
            /\ Started(t) /\ run[t].pc # "returned" => ENABLED PipelineStep(t)
            /\ run[t].pc = "returned" =>
                  /\ issued[t] # <<>>
                  /\ Last(issued[t]) \in TerminalStatuses
                  /\ tasks[t].status \in {"completed", "failed"})
    /\ [][\A t \in TaskIds :
            run'[t] # run[t] => Rank(run'[t].pc) > Rank(run[t].pc)]_vars

C3_Witness ==
    \E t \in TaskIds :
        /\ run[t].kind = "push"
        /\ run[t].pc = "returned"
        /\ issued[t] = <<"PUSHING", "DONE">>
        /\ tasks[t].status = "completed"

\* the record of task t under its canonical key, NoItem if the task manager
\* knows no workspace for t
StoredRecord(t) ==
    IF Truthy(wsmap[t]) THEN store[CanonKey(wsmap[t], t)] ELSE NoItem

\* C4: a task in status FAILED carries a non-empty error message, in the
\* stored record and in the cached task, on every failure path and whatever
\* diagnostic text (possibly empty or absent) the failing stage returned.
C4_FailedHasErrorMessage ==
    \A t \in TaskIds :
        /\ tasks[t].cached /\ tasks[t].status = "failed" =>
              Truthy(tasks[t].error)
        /\ StoredRecord(t).Status = "FAILED" =>
              Truthy(StoredRecord(t).ErrorMessage)

\* C5: a task in status DONE has the output of its pipeline set: wasm_path
\* after a build run, image_url after a push run, both after a build-and-push
\* run; on the compile-service path whatever the success response contains,
\* and on the local path.
C5_DoneHasOutput ==
    \A t \in TaskIds :
        /\ tasks[t].cached /\ tasks[t].status = "completed" =>
              /\ run[t].kind \in {"build", "build_and_push"} =>
                    Truthy(tasks[t].result.wasm_path)
              /\ run[t].kind \in {"push", "build_and_push"} =>
                    Truthy(tasks[t].result.image_uri)
        /\ StoredRecord(t).Status = "DONE" =>
              /\ run[t].kind \in {"build", "build_and_push"} =>
                    Truthy(StoredRecord(t).WasmPath)
              /\ run[t].kind \in {"push", "build_and_push"} =>
                    Truthy(StoredRecord(t).ImageUrl)

\* C6: when POST /build, /push or /build-and-push has answered 202, a record
\* for the request's (workspace, task id) exists in the store: the put of
\* create_task succeeded before the handler returned and before the first
\* status update of the pipeline.
C6_RecordBeforeResponse ==
    \A t \in TaskIds :
        responded[t] =>
            /\ Truthy(run[t].ws)
            /\ store[CanonKey(run[t].ws, t)].exists

\* C7: whenever a stage of a pipeline returns success = false (file ingest,
\* source upload, type check, compile-service build or push, local build,
\* artifact upload, source download, local push) the task is set to FAILED
\* and no later stage of that run is executed.
C7_FailedStageStopsRun ==
    \A t \in TaskIds :
        \A i \in 1..Len(stages[t]) :
            stages[t][i].outcome = "fail" =>
                /\ i = Len(stages[t])
                /\ run[t].pc = "returned"
                /\ Last(issued[t]) = "FAILED"

\* C8: if a stage of a pipeline raises, the pipeline sets the task to FAILED
\* with an error message that contains the exception text, and returns
\* normally: the exception does not leave the pipeline and no later stage runs.
C8_ExceptionBecomesFailed ==
    \A t \in TaskIds :
        \A i \in 1..Len(stages[t]) :
            stages[t][i].outcome = "raised" =>
                /\ i = Len(stages[t])
                /\ run[t].pc = "returned"
                /\ Last(issued[t]) = "FAILED"
                /\ tasks[t].status = "failed"
                /\ Truthy(tasks[t].error)
                /\ Contains(tasks[t].error, <<ExceptPrefix(run[t].kind)>>
                                                \o stages[t][i].exc)

C8_Witness ==
    \E t \in TaskIds :
        /\ stages[t] # <<>>
        /\ Last(stages[t]).outcome = "raised"
        /\ Last(stages[t]).exc = <<"boom">>
        /\ Last(stages[t]).name = "typecheck"
        /\ tasks[t].status = "failed"

\* C9: in a build-and-push run whose build succeeded (wasm_path written on
\* the PUSHING update) and whose push then fails, the final record has status
\* FAILED and an error message while the WasmPath written earlier is left
\* unchanged, in the store and in the cached task's result.
C9_PushFailureKeepsWasmPath ==
    [][\A t \in TaskIds :
          (/\ run[t].kind = "build_and_push"
           /\ issued[t] # <<>> /\ Last(issued[t]) = "PUSHING"
           /\ Truthy(StoredRecord(t).WasmPath)
           /\ issued'[t] # issued[t]
           /\ Last(issued'[t]) = "FAILED")
          => /\ store'[CanonKey(wsmap[t], t)].Status = "FAILED"
             /\ Truthy(store'[CanonKey(wsmap[t], t)].ErrorMessage)
             /\ store'[CanonKey(wsmap[t], t)].WasmPath = StoredRecord(t).WasmPath
             /\ tasks'[t].status = "failed"
             /\ Truthy(tasks'[t].error)
             /\ tasks'[t].result = tasks[t].result
             /\ tasks'[t].result.wasm_path = StoredRecord(t).WasmPath]_vars

\* C10: for a task created with a workspace id, once a create or a status
\* update of the orchestrating instance has returned, another instance with
\* an empty cache that calls get_task(task_id, workspace_id) obtains the same
\* status, the same result (wasm_path, image_uri) and the same error as the
\* orchestrating instance holds in its cache.
C10_OtherInstanceSeesSame ==
    \A t \in TaskIds :
        tasks[t].cached /\ Truthy(wsmap[t]) =>
            LET other == get_task_fresh(store, t, wsmap[t]) IN
            /\ other.cached
            /\ other.status = tasks[t].status
            /\ other.result = tasks[t].result
            /\ other.error = tasks[t].error

\* direct calls while the clock runs and the store may reject a write
NextClock ==
    \/ Tick
    \/ \E w \in Workspaces, ok \in StoreOutcomes : CallCreateTask(w, None, None, ok)
    \/ \E t \in TaskIds, u \in BuildStatusUpdates, ok \in StoreOutcomes :
          CallUpdateBuildStatus(t, u.status, u.wasm_path, None, u.error, ok)
    \/ \E t \in TaskIds, w \in Workspaces : CallGetTask(t, w)
    \/ \E w \in Workspaces : CallListTasks(w, 1..4)

SpecClock == InitTaskManager /\ [][NextClock]_vars

\* the record of task t as a reader of the store sees it
StoredTask(t) == from_dynamodb_item(Item(CanonKey(wsmap[t], t), StoredRecord(t)))

\* C11: for every task and every sequence of transitions created_at never
\* changes, updated_at is refreshed on every mutation and never decreases
\* from one transition to the next, and updated_at >= created_at in every
\* state, for the cached task and for the stored record.
C11_Timestamps ==
    /\ [](\A t \in TaskIds :
            /\ tasks[t].cached => tasks[t].updated_at >= tasks[t].created_at
            /\ StoredRecord(t).exists =>
                  /\ Truthy(StoredRecord(t).CreatedAt)
                  /\ StoredTask(t).updated_at >= StoredTask(t).created_at)
    /\ [][\A t \in TaskIds :
            /\ tasks[t].cached /\ tasks'[t].cached =>
                  /\ tasks'[t].created_at = tasks[t].created_at
                  /\ tasks'[t].updated_at >= tasks[t].updated_at
            /\ (/\ tasks[t].cached /\ tasks'[t] # tasks[t]
                /\ ret'.op \in {"update_status", "update_build_status"}) =>
                  tasks'[t].updated_at = now
            /\ StoredRecord(t).exists =>
                  /\ StoredRecord(t)'.CreatedAt = StoredRecord(t).CreatedAt
                  /\ StoredTask(t)'.updated_at >= StoredTask(t).updated_at]_vars

\* a task that lives in the cache only: created without a workspace
InMemory(t) == tasks[t].cached /\ wsmap[t] = None

\* C15: for an in-memory task get_task reflects the last update_status: a new
\* task is pending with no result and no error; after update_status the task
\* has exactly the status, result and error of that call (running / none /
\* none, completed / r / none, failed / none / e); get_task returns the cached
\* entry as it is and changes nothing, so repeated calls return the same value;
\* and nothing but create_task and the status updates changes the entry.
C15_GetReflectsLastUpdate ==
    /\ [](/\ ret.op = "create_task" /\ InMemory(ret.tid) =>
                /\ tasks[ret.tid].status = "pending"
                /\ tasks[ret.tid].result = NoResult
                /\ tasks[ret.tid].error = None
          /\ ret.op = "update_status" /\ InMemory(ret.tid) =>
                /\ tasks[ret.tid].status = ret.status
                /\ tasks[ret.tid].result = ret.result
                /\ tasks[ret.tid].error = ret.error)
    /\ [][/\ ret'.op = "get_task" /\ InMemory(ret'.tid) =>
                /\ ret'.value = tasks[ret'.tid]
                /\ tasks' = tasks
                /\ ret.op = "get_task" /\ ret.tid = ret'.tid => ret'.value = ret.value
          /\ \A t \in TaskIds :
                InMemory(t) /\ tasks'[t] # tasks[t] =>
                    /\ ret'.op \in {"update_status", "update_build_status"}
                    /\ ret'.tid = t]_vars

C15_Witness ==
    /\ ret.op = "get_task"
    /\ InMemory(ret.tid)
    /\ ret.value.status = "failed"
    /\ ret.value.error = <<"error">>
    /\ ret.value.result = NoResult

\* C16: update_status and update_build_status on a task id that is neither
\* cached nor mapped to a workspace return False and change neither the cache
\* nor the store; get_task on such an id with no workspace returns None and
\* leaves the cache unchanged.
C16_UnknownIdIsNoOp ==
    [][(/\ ret' # ret
        /\ ret'.op \in {"update_status", "update_build_status", "get_task"}
        /\ ~tasks[ret'.tid].cached
        /\ wsmap[ret'.tid] = None
        /\ ret'.op = "get_task" => ~Truthy(ret'.ws))
       => /\ ret'.op # "get_task" => ret'.value = FALSE
          /\ ret'.op = "get_task" => ret'.value = NoTask
          /\ tasks' = tasks
          /\ wsmap' = wsmap
          /\ store' = store]_vars

C16_Witness ==
    /\ ret.op = "update_build_status"
    /\ ret.value = FALSE
    /\ ~tasks[ret.tid].cached
    /\ wsmap[ret.tid] = None

\* ------------------------------------------- conversions of task records
\* what a conversion leaves alone
program == <<tasks, wsmap, store, core_endpoint, next_id, run, issued, updates, stages,
             responded, now, ret>>

\* workspace ids are request texts: an ordinary one, and one that contains
\* the text of a key prefix ("aws#b")
ItemWorkspaces == {<<"w1">>, <<"a", "ws#", "b">>}

\* task records: every status, optional fields unset, empty and set
Items ==
    [workspace_id : ItemWorkspaces, task_id : {<<"1">>},
     app_name : {<<"app">>, <<>>}, status : BuildStatus,
     source_code_path : {<<>>, <<"s3://bucket/build-sources/w1/1/">>},
     created_at : {0}, updated_at : {0, MaxClock},
     wasm_path : {None, <<>>, <<"s3://bucket/a.wasm">>},
     image_url : {None, <<"registry/repo:1">>},
     error_message : {None, <<>>, <<"error">>}]

\* status texts found in the table: the native ones, the legacy ones of the
\* adjacent service, a lower-case one, an unknown one, and none at all
StoredStatuses ==
    BuildStatus \cup {"COMPLETED", "SUCCESS", "RUNNING", "IN_PROGRESS",
                      "completed", "CANCELLED", "<absent>"}

\* an item of the table under either key form
RawItem(pkp, w, skp, tid, status) ==
    [PK |-> <<pkp>> \o w, SK |-> <<skp>> \o tid, exists |-> TRUE,
     Type |-> <<"BuildTask">>, AppName |-> <<"app">>, Status |-> status,
     SourceCodePath |-> <<>>, CreatedAt |-> isoformat(0),
     UpdatedAt |-> isoformat(0), WasmPath |-> None, ImageUrl |-> None,
     ErrorMessage |-> None]

InitItem ==
    /\ InitProgram
    /\ ~core_endpoint
    /\ conv \in {[op |-> "item", item |-> it] : it \in Items}
            \cup {[op |-> "key", pkp |-> pp, ws |-> w, skp |-> sp, tid |-> <<"1">>,
                   status |-> st] :
                      pp \in {"ws#", "WS#"}, w \in ItemWorkspaces,
                      sp \in {"build#", "BUILD#"}, st \in StoredStatuses}

\* to_dynamodb_item followed by from_dynamodb_item
RoundTrip ==
    /\ conv.op = "item"
    /\ conv' = [op |-> "round_trip", item |-> conv.item,
                back |-> from_dynamodb_item(to_dynamodb_item(conv.item))]
    /\ UNCHANGED program

\* from_dynamodb_item on an item of the table
ReadItem ==
    /\ conv.op = "key"
    /\ conv' = [conv EXCEPT !.op = "read"] @@
               [item |-> from_dynamodb_item(
                            RawItem(conv.pkp, conv.ws, conv.skp, conv.tid, conv.status))]
    /\ UNCHANGED program

NextItem == RoundTrip \/ ReadItem

SpecItem == InitItem /\ [][NextItem]_vars

\* C12: for every task record from_dynamodb_item(to_dynamodb_item(item))
\* equals item on all ten fields: optional fields that are unset stay unset,
\* set ones keep their exact value.
C12_RoundTrip ==
    conv.op = "round_trip" => conv.back = conv.item

\* the status a stored status text stands for
ExpectedStatus(st) ==
    CASE st \in {"COMPLETED", "SUCCESS"} -> "DONE"
      [] st \in {"RUNNING", "IN_PROGRESS"} -> "BUILDING"
      [] OTHER -> st

\* C13: from_dynamodb_item reads records under the ws#/build# and the
\* WS#/BUILD# key prefixes and recovers the same workspace_id and task_id from
\* both forms; COMPLETED and SUCCESS become DONE, RUNNING and IN_PROGRESS become
\* BUILDING, the five native status values stay as they are.
C13_ReadsBothKeyForms ==
    conv.op = "read" =>
        /\ conv.item.workspace_id = conv.ws
        /\ conv.item.task_id = conv.tid
        /\ conv.status \in BuildStatus \cup {"COMPLETED", "SUCCESS", "RUNNING",
                                             "IN_PROGRESS"} =>
              conv.item.status = ExpectedStatus(conv.status)

\* ------------------------------------------------ listing a workspace's tasks
\* The table is shared with the core service, which writes build-task records
\* under its own key form (WS#, BUILD#), with its own status values and its
\* own timestamp texts; from_dynamodb_item is written to read them.
ForeignTimes == {<<"0">>, <<"2024-05-01 10:00 UTC">>}

\* the keys the core service writes under: every key form of the workspace
\* that is listed, its own key form in another workspace
ForeignKeys ==
    {k \in StoreKeys : k.ws \in Workspaces \/ (k.pkp = "WS#" /\ k.skp = "BUILD#")}

\* the sets of answered queries: all four, or all but one
QueryOutcomes == {(1..4) \ failed : failed \in {{}, {1}, {2}, {3}, {4}}}

\* a record of the core service appears in the table under key k
AdjacentWrite(k, status, stamp) ==
    /\ ~store[k].exists
    /\ store' = [store EXCEPT ![k] =
                    [NoItem EXCEPT !.exists = TRUE, !.Type = <<"BuildTask">>,
                                   !.Status = status,
                                   !.CreatedAt = stamp, !.UpdatedAt = stamp]]
    /\ UNCHANGED <<tasks, wsmap, next_id, issued, updates, now, ret, pipelines>>

NextList ==
    \/ \E w \in Workspaces : CallCreateTask(w, <<"app">>, <<>>, TRUE)
    \/ \E k \in ForeignKeys, stamp \in ForeignTimes :
          AdjacentWrite(k, "SUCCESS", stamp)
    \/ \E w \in Workspaces, answered \in QueryOutcomes : CallListTasks(w, answered)

SpecList == InitTaskManager /\ [][NextList]_vars

\* the records of workspace w that the answered queries cover
RecordsOf(w, answered) ==
    {k \in StoreKeys :
        /\ store[k].exists
        /\ k.ws = w
        /\ \E i \in answered :
              QueryVariants[i].pkp = k.pkp /\ QueryVariants[i].skp = k.skp}

\* C14: list_tasks(workspace) returns one task for every build-task record
\* stored for that workspace under each of the four key forms whose query was
\* answered, and nothing else: no record of another workspace, and a query
\* that fails takes only its own key form's records with it.
C14_ListsEveryRecord ==
    [][\A w \in Workspaces, answered \in QueryOutcomes :
          CallListTasks(w, answered) =>
              /\ {ret'.keys[i] : i \in 1..Len(ret'.keys)} = RecordsOf(w, answered)
              /\ Len(ret'.keys) = Cardinality(RecordsOf(w, answered))
              /\ Len(ret'.value) = Len(ret'.keys)]_vars

\* the part of C14 that holds: nothing of another workspace is listed, and
\* records whose timestamps parse are listed whatever queries fail beside them
C14_Isolation ==
    [][\A w \in Workspaces, answered \in QueryOutcomes :
          CallListTasks(w, answered) =>
              /\ {ret'.keys[i] : i \in 1..Len(ret'.keys)} \subseteq RecordsOf(w, answered)
              /\ \A k \in RecordsOf(w, answered) :
                    Converts(Item(k, store[k])) =>
                        \E i \in 1..Len(ret'.keys) : ret'.keys[i] = k]_vars

\* ------------------------------------------- the build-and-push hand-over
\* the artifact path the build stage of a run handed over: wasm_path of the
\* compile service's answer, or on the local path the uploaded artifact's
\* path, the local file's path when the upload failed
BuildOutput(t) ==
    LET named(name) == {i \in 1..Len(stages[t]) : stages[t][i].name = name}
        value(name) == stages[t][CHOOSE i \in named(name) : TRUE].value
    IN IF named("core_build") # {} THEN value("core_build")
       ELSE IF named("upload_artifact") # {}
               /\ stages[t][CHOOSE i \in named("upload_artifact") : TRUE].outcome = "ok"
       THEN value("upload_artifact")
       ELSE value("local_build")

\* C17: when a build-and-push run has ended with DONE, the DONE update came
\* directly after the PUSHING update and carried the same wasm_path as that
\* one, namely the path the build stage handed over, together with the image
\* URL the push stage returned (the last stage of the run); the cached task
\* shows both whenever they are non-empty. This holds on the compile-service
\* path and on the local path.
C17_DoneCarriesBoth ==
    \A t \in TaskIds :
        (run[t].kind = "build_and_push" /\ issued[t] # <<>>
            /\ Last(issued[t]) = "DONE") =>
            LET n == Len(updates[t])
                done == updates[t][n]
                push_stage == Last(stages[t])
            IN /\ n >= 2
               /\ updates[t][n - 1].status = "PUSHING"
               /\ done.wasm_path = updates[t][n - 1].wasm_path
               /\ done.wasm_path = BuildOutput(t)
               /\ push_stage.name \in {"core_push", "local_push"}
               /\ push_stage.outcome = "ok"
               /\ done.image_url = push_stage.value
               /\ Truthy(done.wasm_path) =>
                     tasks[t].result.wasm_path = done.wasm_path
               /\ Truthy(done.image_url) =>
                     tasks[t].result.image_uri = done.image_url

\* a build-and-push run on the compile-service path has ended with DONE,
\* artifact path and image URL both there
C17_Witness ==
    \E t \in TaskIds :
        /\ run[t].kind = "build_and_push"
        /\ issued[t] = <<"BUILDING", "PUSHING", "DONE">>
        /\ Last(stages[t]).name = "core_push"
        /\ Truthy(Last(updates[t]).wasm_path)
        /\ Truthy(Last(updates[t]).image_url)
        /\ store[CanonKey(wsmap[t], t)].WasmPath = Last(updates[t]).wasm_path
        /\ store[CanonKey(wsmap[t], t)].ImageUrl = Last(updates[t]).image_url

\* ------------------------------------------------------- SpinApp manifests
\* Optional[int]: None is <<>>, the integer n is <<n>>
NoReplicas == <<>>

ReplicaValues == {NoReplicas, <<0 - 1>>, <<0>>, <<1>>, <<2>>}

\* Toleration(key, operator="Exists", effect="NoSchedule", value=None)
Toleration(key, operator, effect, value) ==
    [key |-> key, operator |-> operator, effect |-> effect, value |-> value]

\* ManifestService.DEFAULT_SPOT_TOLERATION
DEFAULT_SPOT_TOLERATION == Toleration(<<"spot">>, "Exists", "NoSchedule", None)

\* the tolerations a caller can ask for: one for another taint, one for the
\* spot taint with a value, and one spelled like the default
CustomTolerations ==
    {Toleration(<<"gpu">>, "Equal", "NoSchedule", <<"true">>),
     Toleration(<<"spot">>, "Exists", "NoSchedule", <<"true">>),
     DEFAULT_SPOT_TOLERATION}

TolerationLists ==
    {<<>>} \cup {<<a>> : a \in CustomTolerations}
           \cup {<<a, b>> : a, b \in CustomTolerations}

\* ResourceLimits: every value that is set has passed validate_resource_format
NoResources ==
    [cpu_limit |-> None, memory_limit |-> None, cpu_request |-> None,
     memory_request |-> None]

ResourceSets ==
    {NoResources, [NoResources EXCEPT !.cpu_limit = <<"100m">>],
     [NoResources EXCEPT !.cpu_limit = <<"100m">>, !.memory_request = <<"128Mi">>]}

\* NodeAffinity: its preferred scheduling terms, each with one match
\* expression
Term(weight, key, operator, values) ==
    [weight |-> weight, key |-> key, operator |-> operator, values |-> values]

\* ManifestService.DEFAULT_SPOT_AFFINITY
DEFAULT_SPOT_AFFINITY == <<Term(100, <<"spot">>, "In", <<"true">>)>>

\* Optional[NodeAffinity]: None is the empty sequence of terms (a
\* NodeAffinity without terms is not among the inputs)
NoAffinity == <<>>

\* node_affinity of a manifest: None, or what a caller supplies
NodeAffinities == {NoAffinity, <<Term(50, <<"zone">>, "In", <<"a">>)>>}

\* the keyword arguments of SpinAppManifest(...)
ManifestArgs ==
    [name : {<<>>, <<"app">>}, image : {<<>>, <<"img">>},
     namespace : {<<"default">>}, replicas : ReplicaValues,
     service_account : {None, <<>>, <<"sa">>}, resources : ResourceSets,
     api_version : {<<"core.spinkube.dev/v1alpha1">>}, kind : {<<"SpinApp">>},
     enable_autoscaling : BOOLEAN, use_spot : BOOLEAN,
     tolerations : TolerationLists, node_affinity : NodeAffinities]

\* the message of validate_autoscaling_config and of __post_init__
MutuallyExclusiveMessage ==
    <<"enableAutoscaling and replicas are ", "mutually exclusive",
      ". When enableAutoscaling is true, replicas must not be specified.">>

\* validate_autoscaling_config(enable_autoscaling, replicas)
validate_autoscaling_config(enable_autoscaling, replicas) ==
    IF enable_autoscaling /\ replicas # NoReplicas
    THEN [is_valid |-> FALSE, error_msg |-> MutuallyExclusiveMessage]
    ELSE [is_valid |-> TRUE, error_msg |-> None]

\* variant of SpinAppManifest: the replica range is checked whatever
\* enable_autoscaling says, before the mutual exclusion
SpinAppManifest_range_first(a) ==
    IF ~Truthy(a.name)
    THEN [raised |-> "ValueError", message |-> <<"SpinApp name cannot be empty">>]
    ELSE IF ~Truthy(a.image)
    THEN [raised |-> "ValueError", message |-> <<"SpinApp image cannot be empty">>]
    ELSE IF a.replicas # NoReplicas /\ a.replicas[1] < 1
    THEN [raised |-> "ValueError", message |-> <<"Replicas must be at least 1">>]
    ELSE IF a.enable_autoscaling /\ a.replicas # NoReplicas
    THEN [raised |-> "AutoscalingValidationError",
          message |-> MutuallyExclusiveMessage]
    ELSE [raised |-> "none", manifest |-> a]

\* SpinAppManifest(...): the dataclass constructor followed by __post_init__
SpinAppManifest(a) ==
    IF ~Truthy(a.name)
    THEN [raised |-> "ValueError", message |-> <<"SpinApp name cannot be empty">>]
    ELSE IF ~Truthy(a.image)
    THEN [raised |-> "ValueError", message |-> <<"SpinApp image cannot be empty">>]
    ELSE IF ~a.enable_autoscaling /\ a.replicas # NoReplicas /\ a.replicas[1] < 1
    THEN [raised |-> "ValueError", message |-> <<"Replicas must be at least 1">>]
    ELSE IF a.enable_autoscaling /\ a.replicas # NoReplicas
    THEN [raised |-> "AutoscalingValidationError",
          message |-> MutuallyExclusiveMessage]
    ELSE [raised |-> "none", manifest |-> a]

\* ManifestService._toleration_to_dict: value is written when it is not None
toleration_to_dict(t) ==
    [key |-> t.key, operator |-> t.operator, effect |-> t.effect, value |-> t.value]

\* ManifestService._node_affinity_to_dict: the terms under
\* nodeAffinity.preferredDuringSchedulingIgnoredDuringExecution
node_affinity_to_dict(affinity) ==
    [i \in 1..Len(affinity) |->
        [weight |-> affinity[i].weight,
         matchExpressions |-> [key |-> affinity[i].key,
                               operator |-> affinity[i].operator,
                               values |-> affinity[i].values]]]

\* the node-affinity part of from_yaml: the terms read back, None when the
\* key is absent (NoAffinity) or holds no term
ParsedAffinity(affinity_data) ==
    IF affinity_data = NoAffinity THEN NoAffinity
    ELSE [i \in 1..Len(affinity_data) |->
            Term(affinity_data[i].weight, affinity_data[i].matchExpressions.key,
                 affinity_data[i].matchExpressions.operator,
                 affinity_data[i].matchExpressions.values)]

Map(f(_), seq) == [i \in 1..Len(seq) |-> f(seq[i])]

\* variant of spec_replicas: a manifest without a replica count is emitted
\* with replicas: 1
spec_replicas_default(manifest) ==
    IF manifest.replicas # NoReplicas THEN manifest.replicas ELSE <<1>>

\* to_yaml, data["spec"]["replicas"]: written only when autoscaling is off
\* and replicas is not None; NoReplicas is the key left out
spec_replicas(manifest) ==
    IF ~manifest.enable_autoscaling /\ manifest.replicas # NoReplicas
    THEN manifest.replicas ELSE NoReplicas

\* variant of spec_tolerations: the default spot toleration is appended
\* after the caller's tolerations
spec_tolerations_spot_last(manifest) ==
    IF manifest.use_spot
    THEN Map(toleration_to_dict, manifest.tolerations)
             \o <<toleration_to_dict(DEFAULT_SPOT_TOLERATION)>>
    ELSE Map(toleration_to_dict, manifest.tolerations)

\* to_yaml, data["spec"]["tolerations"]: the default spot toleration first
\* when use_spot, then the manifest's own; the empty list is the key left out
spec_tolerations(manifest) ==
    IF manifest.use_spot
    THEN <<toleration_to_dict(DEFAULT_SPOT_TOLERATION)>>
             \o Map(toleration_to_dict, manifest.tolerations)
    ELSE Map(toleration_to_dict, manifest.tolerations)

\* ManifestService.to_yaml: the document that is dumped. A key that is left
\* out reads back as None with dict.get (NoReplicas for replicas, the empty
\* list for tolerations, which to_yaml never writes empty); yaml.dump and
\* yaml.safe_load keep texts, integers and booleans as they are.
to_yaml(manifest) ==
    [apiVersion |-> manifest.api_version,
     kind |-> manifest.kind,
     name |-> manifest.name,
     namespace |-> manifest.namespace,
     image |-> manifest.image,
     enableAutoscaling |-> manifest.enable_autoscaling,
     replicas |-> spec_replicas(manifest),
     serviceAccountName |-> IF Truthy(manifest.service_account)
                            THEN manifest.service_account ELSE None,
     resources |->
        [limits_cpu |-> IF Truthy(manifest.resources.cpu_limit)
                        THEN manifest.resources.cpu_limit ELSE None,
         limits_memory |-> IF Truthy(manifest.resources.memory_limit)
                           THEN manifest.resources.memory_limit ELSE None,
         requests_cpu |-> IF Truthy(manifest.resources.cpu_request)
                          THEN manifest.resources.cpu_request ELSE None,
         requests_memory |-> IF Truthy(manifest.resources.memory_request)
                             THEN manifest.resources.memory_request ELSE None],
     tolerations |-> spec_tolerations(manifest),
     affinity |-> IF manifest.use_spot
                  THEN node_affinity_to_dict(DEFAULT_SPOT_AFFINITY)
                  ELSE IF manifest.node_affinity # NoAffinity
                  THEN node_affinity_to_dict(manifest.node_affinity)
                  ELSE NoAffinity]

\* the test from_yaml strips by: key, operator and effect of the default
\* spot toleration, whatever the value
IsSpotToleration(t) ==
    t.key = <<"spot">> /\ t.operator = "Exists" /\ t.effect = "NoSchedule"

\* ManifestService._has_default_spot_toleration
has_default_spot_toleration(tolerations) ==
    \E i \in 1..Len(tolerations) : IsSpotToleration(tolerations[i])

NotSpotToleration(t) == ~IsSpotToleration(t)

ParsedToleration(t) == Toleration(t.key, t.operator, t.effect, t.value)

\* ManifestService.from_yaml on a document to_yaml produced: a ValueError
\* of the constructor becomes a ManifestParseError
from_yaml(data) ==
    LET tolerations == Map(ParsedToleration, data.tolerations)
        built == SpinAppManifest(
            [name |-> data.name, image |-> data.image,
             namespace |-> data.namespace, replicas |-> data.replicas,
             service_account |-> data.serviceAccountName,
             resources |-> [cpu_limit |-> data.resources.limits_cpu,
                            memory_limit |-> data.resources.limits_memory,
                            cpu_request |-> data.resources.requests_cpu,
                            memory_request |-> data.resources.requests_memory],
             api_version |-> data.apiVersion, kind |-> data.kind,
             enable_autoscaling |-> data.enableAutoscaling,
             use_spot |-> has_default_spot_toleration(tolerations),
             tolerations |-> SelectSeq(tolerations, NotSpotToleration),
             node_affinity |-> IF has_default_spot_toleration(tolerations)
                               THEN NoAffinity ELSE ParsedAffinity(data.affinity)])
    IN IF built.raised = "none" THEN built
       ELSE [raised |-> "ManifestParseError",
             message |-> <<"Invalid manifest data: ">> \o built.message]

\* POST /deploy. The request carries the fields of a manifest (name is
\* app_name, image is image_ref); namespace_exists and apply_ok are what the
\* cluster answers. The response, and which steps were reached.
deploy(request, namespace_exists, apply_ok) ==
    LET check == validate_autoscaling_config(request.enable_autoscaling,
                                             request.replicas)
        app_name == IF Truthy(request.name) THEN request.name
                    ELSE <<"generated-name">>
        built == SpinAppManifest(
                    [request EXCEPT !.name = app_name, !.node_affinity = NoAffinity,
                                    !.replicas = IF request.enable_autoscaling
                                                 THEN NoReplicas ELSE @])
        untouched == [manifest_written |-> FALSE, namespace_checked |-> FALSE,
                      applied |-> FALSE]
    IN IF ~check.is_valid
       THEN [status |-> 400, detail |-> check.error_msg] @@ untouched
       ELSE IF built.raised # "none"
       THEN [status |-> 500, detail |-> <<"Internal Server Error">>] @@ untouched
       ELSE IF ~namespace_exists
       THEN [status |-> 400,
             detail |-> <<"Namespace '">> \o request.namespace \o <<"' ", "not found">>,
             manifest_written |-> TRUE, namespace_checked |-> TRUE,
             applied |-> FALSE]
       ELSE [status |-> IF apply_ok THEN 200 ELSE 500,
             detail |-> IF apply_ok THEN None ELSE <<"kubectl apply failed">>,
             manifest_written |-> TRUE, namespace_checked |-> TRUE,
             applied |-> TRUE]

InitManifest ==
    /\ InitProgram
    /\ ~core_endpoint
    /\ conv \in {[op |-> "args", args |-> a] : a \in ManifestArgs}

\* SpinAppManifest(**args)
Construct ==
    /\ conv.op = "args"
    /\ conv' = [op |-> "constructed", args |-> conv.args,
                out |-> SpinAppManifest(conv.args)]
    /\ UNCHANGED program

\* to_yaml of a constructed manifest, then from_yaml of the document
YamlRoundTrip ==
    /\ conv.op = "constructed"
    /\ conv.out.raised = "none"
    /\ conv' = [op |-> "yaml_round_trip", manifest |-> conv.out.manifest,
                document |-> to_yaml(conv.out.manifest),
                back |-> from_yaml(to_yaml(conv.out.manifest))]
    /\ UNCHANGED program

\* POST /deploy with the arguments as the request body
Deploy(namespace_exists, apply_ok) ==
    /\ conv.op = "args"
    /\ conv' = [op |-> "deploy", args |-> conv.args,
                response |-> deploy(conv.args, namespace_exists, apply_ok)]
    /\ UNCHANGED program

NextManifest ==
    \/ Construct
    \/ YamlRoundTrip
    \/ \E namespace_exists \in BOOLEAN, apply_ok \in BOOLEAN :
          Deploy(namespace_exists, apply_ok)

SpecManifest == InitManifest /\ [][NextManifest]_vars

\* the combination C18 is about
BothSet(a) == a.enable_autoscaling /\ a.replicas # NoReplicas

\* what C18 says of POST /deploy: 400, the detail, and nothing done yet
RejectedFirst ==
    (conv.op = "deploy" /\ BothSet(conv.args)) =>
        /\ conv.response.status = 400
        /\ Contains(conv.response.detail, <<"mutually exclusive">>)
        /\ ~conv.response.namespace_checked
        /\ ~conv.response.manifest_written
        /\ ~conv.response.applied

\* C18 as stated: constructing a SpinAppManifest with enable_autoscaling=true
\* and replicas not null fails, for every replicas value, with
\* AutoscalingValidationError whose message contains 'mutually exclusive';
\* POST /deploy with that combination is answered 400 with that detail
\* before the namespace is checked and before a manifest is written or
\* applied.
C18_AsStated ==
    /\ (conv.op = "constructed" /\ BothSet(conv.args)) =>
          /\ conv.out.raised = "AutoscalingValidationError"
          /\ Contains(conv.out.message, <<"mutually exclusive">>)
    /\ RejectedFirst

\* C18, amended: the same, for a manifest whose name and image are not
\* empty (an empty name or image fails first, with a plain ValueError).
C18_MutuallyExclusive ==
    /\ (conv.op = "constructed" /\ BothSet(conv.args)
            /\ Truthy(conv.args.name) /\ Truthy(conv.args.image)) =>
          /\ conv.out.raised = "AutoscalingValidationError"
          /\ Contains(conv.out.message, <<"mutually exclusive">>)
    /\ RejectedFirst

\* a construction with autoscaling on and a replica count below 1 has failed
C18_Witness ==
    /\ conv.op = "constructed"
    /\ conv.args.enable_autoscaling
    /\ conv.args.replicas = <<0>>
    /\ Truthy(conv.args.name) /\ Truthy(conv.args.image)
    /\ conv.out.raised = "AutoscalingValidationError"

\* C19: every SpinAppManifest that was constructed has exactly one of
\* enable_autoscaling = true and replicas present, and a present replicas
\* value is at least 1.
C19_AutoscalingXorReplicas ==
    (conv.op = "constructed" /\ conv.out.raised = "none") =>
        LET m == conv.out.manifest
        IN /\ m.enable_autoscaling # (m.replicas # NoReplicas)
           /\ m.replicas # NoReplicas => m.replicas[1] >= 1

\* the fields C20 compares
Configuration(m) ==
    [name |-> m.name, namespace |-> m.namespace, image |-> m.image,
     replicas |-> m.replicas, service_account |-> m.service_account,
     resources |-> m.resources, api_version |-> m.api_version, kind |-> m.kind,
     enable_autoscaling |-> m.enable_autoscaling, use_spot |-> m.use_spot,
     tolerations |-> m.tolerations]

\* C20: for every constructed manifest m, from_yaml(to_yaml(m)) succeeds and
\* has the same name, namespace, image, replicas, service_account, resources,
\* api_version, kind, enable_autoscaling, use_spot and custom tolerations.
C20_YamlRoundTrip ==
    conv.op = "yaml_round_trip" =>
        /\ conv.back.raised = "none"
        /\ Configuration(conv.back.manifest) = Configuration(conv.manifest)

\* C21: the emitted document has spec.replicas exactly when
\* enable_autoscaling is false and replicas is set, with the manifest's
\* value; a manifest with enable_autoscaling=true is emitted without a
\* replicas key; spec.enableAutoscaling is always the manifest's value.
C21_ReplicasEmitted ==
    conv.op = "yaml_round_trip" =>
        LET m == conv.manifest
            d == conv.document
        IN /\ (d.replicas # NoReplicas) <=>
                  (~m.enable_autoscaling /\ m.replicas # NoReplicas)
           /\ d.replicas # NoReplicas => d.replicas = m.replicas
           /\ m.enable_autoscaling => d.replicas = NoReplicas
           /\ d.enableAutoscaling = m.enable_autoscaling

\* a manifest with autoscaling off and two replicas was emitted with them
C21_Witness ==
    /\ conv.op = "yaml_round_trip"
    /\ ~conv.manifest.enable_autoscaling
    /\ conv.manifest.replicas = <<2>>
    /\ conv.document.replicas = <<2>>
    /\ ~conv.document.enableAutoscaling

\* C22: with use_spot=true the emitted tolerations start with the default
\* spot toleration, followed by the manifest's tolerations in their order and
\* unchanged, and the affinity is the preference of spot in ["true"] with
\* weight 100; with use_spot=false the emitted tolerations are exactly the
\* manifest's (the key is absent when there are none) and an affinity is
\* emitted only when the manifest has a node affinity, and then it is that one.
C22_SpotSettings ==
    conv.op = "yaml_round_trip" =>
        LET m == conv.manifest
            d == conv.document
        IN IF m.use_spot
           THEN /\ Len(d.tolerations) = Len(m.tolerations) + 1
                /\ d.tolerations[1] =
                      [key |-> <<"spot">>, operator |-> "Exists",
                       effect |-> "NoSchedule", value |-> None]
                /\ \A i \in 1..Len(m.tolerations) :
                      d.tolerations[i + 1] = m.tolerations[i]
                /\ d.affinity =
                      <<[weight |-> 100,
                         matchExpressions |-> [key |-> <<"spot">>, operator |-> "In",
                                               values |-> <<"true">>]]>>
           ELSE /\ d.tolerations = m.tolerations
                /\ (d.affinity # NoAffinity) <=> (m.node_affinity # NoAffinity)
                /\ m.node_affinity # NoAffinity =>
                      d.affinity = node_affinity_to_dict(m.node_affinity)

\* a spot manifest with two different tolerations of its own was emitted
C22_Witness ==
    /\ conv.op = "yaml_round_trip"
    /\ conv.manifest.use_spot
    /\ Len(conv.manifest.tolerations) = 2
    /\ conv.manifest.tolerations[1] # conv.manifest.tolerations[2]
    /\ Len(conv.document.tolerations) = 3

\* ------------------------------------------------ POST /deploy, step by step
\* str.lower() on the texts the cluster CLI prints
lower(text) ==
    [i \in 1..Len(text) |->
        CASE text[i] = "NotFound" -> "notfound"
          [] text[i] = "Not Found" -> "not found"
          [] OTHER -> text[i]]

\* the requests of the step-by-step model: the fields the handler branches on
DeployRequests ==
    {a \in ManifestArgs :
        /\ a.tolerations = <<>> /\ a.resources = NoResources
        /\ a.service_account = None /\ a.node_affinity = NoAffinity
        /\ a.replicas \in {NoReplicas, <<0>>, <<2>>}}

\* what writing the temporary manifest file can do: NamedTemporaryFile may
\* raise before a file exists, the write (or the flush on close) after
WriteOutcomes == {"written", "create_raises", "write_raises"}

\* stderr of a failed kubectl apply
ApplyStderr ==
    {<<>>, <<"error: unable to recognize: ", "resource mapping ", "not found",
             " for kind SpinApp">>,
     <<"Error from server (Forbidden)">>}

\* DeployService.apply_manifest: (success, error_message)
ApplyResults ==
    {[success |-> TRUE, error |-> None]}
        \cup {[success |-> FALSE,
               error |-> IF Truthy(e) THEN e ELSE <<"Failed to apply manifest">>] :
                  e \in ApplyStderr}
        \cup {[success |-> FALSE, error |-> <<"kubectl apply timed out">>],
              [success |-> FALSE, error |-> <<"kubectl ", "not found">>]}
        \cup {[success |-> FALSE, error |-> e] : e \in ExcText}

\* what subprocess.run of `kubectl get service` can do
ServiceQueries ==
    {[kind |-> "exit", returncode |-> rc, stdout |-> out, stderr |-> err] :
        rc \in {0, 1},
        out \in {<<>>, <<" ">>, <<"10.0.0.7">>, <<"10.0.0.7", " ">>, <<"None">>},
        err \in {<<>>, <<"Error from server (", "NotFound", ")">>,
                 <<"services ", "Not Found">>, <<"connection refused">>}}
        \cup {[kind |-> k, returncode |-> 0, stdout |-> <<>>, stderr |-> <<>>] :
                 k \in {"TimeoutExpired", "FileNotFoundError", "Exception"}}

\* str.strip(): leading and trailing whitespace goes
strip(text) ==
    LET solid == {i \in 1..Len(text) : text[i] # " "}
    IN IF solid = {} THEN <<>>
       ELSE SubSeq(text, CHOOSE i \in solid : \A j \in solid : i <= j,
                         CHOOSE i \in solid : \A j \in solid : j <= i)

\* variant of get_service: every non-empty output of a successful query
\* counts as a cluster IP
get_service_any_output(app_name, namespace, q) ==
    LET found == [service_status |-> "found",
                  endpoint |-> app_name \o <<".">> \o namespace
                                   \o <<".svc.cluster.local">>]
        pending == [service_status |-> "pending", endpoint |-> None]
        not_found == [service_status |-> "not_found", endpoint |-> None]
    IN IF q.kind = "TimeoutExpired" THEN pending
       ELSE IF q.kind \in {"FileNotFoundError", "Exception"} THEN not_found
       ELSE IF q.returncode = 0 /\ Truthy(strip(q.stdout)) THEN found
       ELSE IF q.returncode # 0
       THEN IF Contains(q.stderr, <<"NotFound">>)
               \/ Contains(lower(q.stderr), <<"not found">>)
            THEN not_found ELSE pending
       ELSE pending

\* DeployService.get_service
get_service(app_name, namespace, q) ==
    LET found == [service_status |-> "found",
                  endpoint |-> app_name \o <<".">> \o namespace
                                   \o <<".svc.cluster.local">>]
        pending == [service_status |-> "pending", endpoint |-> None]
        not_found == [service_status |-> "not_found", endpoint |-> None]
    IN IF q.kind = "TimeoutExpired" THEN pending
       ELSE IF q.kind \in {"FileNotFoundError", "Exception"} THEN not_found
       ELSE IF q.returncode = 0 /\ Truthy(strip(q.stdout))
       THEN IF strip(q.stdout) # <<"None">> THEN found ELSE pending
       ELSE IF q.returncode # 0
       THEN IF Contains(q.stderr, <<"NotFound">>)
               \/ Contains(lower(q.stderr), <<"not found">>)
            THEN not_found ELSE pending
       ELSE pending

NoDeployResult == [set |-> FALSE, success |-> FALSE, error |-> None,
                   service_status |-> "not_found", endpoint |-> None]

\* no service query made
NoQuery == [kind |-> "none", returncode |-> 0, stdout |-> <<>>, stderr |-> <<>>]

\* the handler before its first statement
DeployStart(a) ==
    [op |-> "deploying", pc |-> "validate", request |-> a, app_name |-> None,
     file |-> "none", calls |-> <<>>, namespace_exists |-> FALSE,
     applied |-> FALSE, query |-> NoQuery, result |-> NoDeployResult,
     status |-> 0, detail |-> None]

InitDeploy ==
    /\ InitProgram
    /\ ~core_endpoint
    /\ conv \in {DeployStart(a) : a \in DeployRequests}

\* the handler answers: status and detail, no further step
Answer(c, status, detail) ==
    [c EXCEPT !.pc = "responded", !.status = status, !.detail = detail]

\* validate_autoscaling_config, ResourceLimits, the name, SpinAppManifest and
\* to_yaml; an exception of the constructor is answered 500 by the framework
DeployValidate ==
    /\ conv.op = "deploying" /\ conv.pc = "validate"
    /\ LET r == conv.request
           check == validate_autoscaling_config(r.enable_autoscaling, r.replicas)
           app_name == IF Truthy(r.name) THEN r.name ELSE <<"generated-name">>
           built == SpinAppManifest(
                       [r EXCEPT !.name = app_name, !.node_affinity = NoAffinity,
                                 !.replicas = IF r.enable_autoscaling
                                              THEN NoReplicas ELSE @])
       IN conv' = IF ~check.is_valid THEN Answer(conv, 400, check.error_msg)
                  ELSE IF built.raised # "none"
                  THEN Answer(conv, 500, <<"Internal Server Error">>)
                  ELSE [conv EXCEPT !.pc = "write", !.app_name = app_name]
    /\ UNCHANGED program

\* with tempfile.NamedTemporaryFile(mode='w', suffix='.yaml', delete=False):
\* the file exists once the call returned; the with block is outside the try
WriteManifest(w) ==
    /\ conv.op = "deploying" /\ conv.pc = "write"
    /\ conv' = CASE w = "create_raises" ->
                      Answer(conv, 500, <<"Internal Server Error">>)
                 [] w = "write_raises" ->
                      Answer([conv EXCEPT !.file = "exists"], 500,
                             <<"Internal Server Error">>)
                 [] OTHER -> [conv EXCEPT !.file = "exists",
                                          !.pc = "check_namespace"]
    /\ UNCHANGED program

Failure(error) == [NoDeployResult EXCEPT !.set = TRUE, !.error = error]

\* DeployService.deploy, first step: check_namespace
CheckNamespace(exists) ==
    /\ conv.op = "deploying" /\ conv.pc = "check_namespace"
    /\ conv' = [conv EXCEPT
                  !.calls = Append(@, "check_namespace"),
                  !.namespace_exists = exists,
                  !.pc = IF exists THEN "apply" ELSE "finish",
                  !.result = IF exists THEN @
                             ELSE Failure(<<"Namespace '">> \o conv.request.namespace
                                              \o <<"' ", "not found">>)]
    /\ UNCHANGED program

\* variant of ApplyManifest: the service is queried whatever apply returned
ApplyManifest_query(r) ==
    /\ conv.op = "deploying" /\ conv.pc = "apply"
    /\ conv' = [conv EXCEPT
                  !.calls = Append(@, "apply_manifest"),
                  !.applied = r.success,
                  !.pc = "get_service",
                  !.result = IF r.success THEN @ ELSE Failure(r.error)]
    /\ UNCHANGED program

\* DeployService.deploy, second step: apply_manifest
ApplyManifest(r) ==
    /\ conv.op = "deploying" /\ conv.pc = "apply"
    /\ conv' = [conv EXCEPT
                  !.calls = Append(@, "apply_manifest"),
                  !.applied = r.success,
                  !.pc = IF r.success THEN "get_service" ELSE "finish",
                  !.result = IF r.success THEN @ ELSE Failure(r.error)]
    /\ UNCHANGED program

\* DeployService.deploy, last step: get_service and the successful result
GetService(q) ==
    /\ conv.op = "deploying" /\ conv.pc = "get_service"
    /\ LET s == get_service(conv.app_name, conv.request.namespace, q)
       IN conv' = [conv EXCEPT
                      !.calls = Append(@, "get_service"),
                      !.query = q,
                      !.pc = "finish",
                      !.result = [set |-> TRUE, success |-> TRUE, error |-> None,
                                  service_status |-> s.service_status,
                                  endpoint |-> s.endpoint]]
    /\ UNCHANGED program

\* the handler after deploy_service.deploy returned: HTTPException or the
\* response, and the finally clause that unlinks the file
Finish ==
    /\ conv.op = "deploying" /\ conv.pc = "finish"
    /\ LET error == IF conv.result.error = None THEN <<>> ELSE conv.result.error
           c == [conv EXCEPT !.file = "removed"]
       IN conv' = IF conv.result.success THEN Answer(c, 200, None)
                  ELSE Answer(c,
                        IF Contains(lower(error), <<"not found">>) THEN 400 ELSE 500,
                        IF Truthy(conv.result.error) THEN conv.result.error
                        ELSE <<"Deployment failed">>)
    /\ UNCHANGED program

NextDeploy ==
    \/ DeployValidate
    \/ \E w \in WriteOutcomes : WriteManifest(w)
    \/ \E exists \in BOOLEAN : CheckNamespace(exists)
    \/ \E r \in ApplyResults : ApplyManifest(r)
    \/ \E q \in ServiceQueries : GetService(q)
    \/ Finish

SpecDeploy == InitDeploy /\ [][NextDeploy]_vars

C24_DeployOrder ==
    conv.op = "deploying" =>
        /\ IsPrefix(conv.calls, <<"check_namespace", "apply_manifest", "get_service">>)
        /\ (conv.calls # <<>> /\ ~conv.namespace_exists) =>
              /\ conv.calls = <<"check_namespace">>
              /\ conv.result.set /\ ~conv.result.success
              /\ Contains(conv.result.error,
                          conv.request.namespace \o <<"' ", "not found">>)
        /\ Len(conv.calls) = 3 => conv.applied
        /\ (Len(conv.calls) >= 2 /\ ~conv.applied) =>
              /\ conv.calls = <<"check_namespace", "apply_manifest">>
              /\ conv.result.set /\ ~conv.result.success

\* a deployment went through all three calls and returned success
C24_Witness ==
    /\ conv.op = "deploying"
    /\ conv.calls = <<"check_namespace", "apply_manifest", "get_service">>
    /\ conv.result.set /\ conv.result.success
    /\ conv.pc = "finish"

\* C25: get_service gives found with endpoint <name>.<namespace>.svc.cluster.local
\* for exit code 0 with a non-empty cluster IP other than 'None'; pending for
\* an empty output or 'None'; not_found for an explicit not-found error;
\* pending for a timeout; not_found for a missing CLI; and the endpoint is
\* non-null exactly when the status is found.
C25_ServiceStatus ==
    (conv.op = "deploying" /\ conv.query.kind # "none") =>
        LET q == conv.query
            s == conv.result
            ip == strip(q.stdout)
            explicit == \/ Contains(q.stderr, <<"NotFound">>)
                        \/ Contains(lower(q.stderr), <<"not found">>)
        IN /\ (q.kind = "exit" /\ q.returncode = 0 /\ ip # <<>> /\ ip # <<"None">>) =>
                  /\ s.service_status = "found"
                  /\ s.endpoint = conv.app_name \o <<".">> \o conv.request.namespace
                                      \o <<".svc.cluster.local">>
           /\ (q.kind = "exit" /\ q.returncode = 0 /\ (ip = <<>> \/ ip = <<"None">>)) =>
                  s.service_status = "pending"
           /\ (q.kind = "exit" /\ q.returncode # 0 /\ explicit) =>
                  s.service_status = "not_found"
           /\ q.kind = "TimeoutExpired" => s.service_status = "pending"
           /\ q.kind = "FileNotFoundError" => s.service_status = "not_found"
           /\ (s.endpoint # None) <=> (s.service_status = "found")

\* a query that printed a cluster IP followed by a newline was mapped to found
C25_Witness ==
    /\ conv.op = "deploying"
    /\ conv.query.kind = "exit" /\ conv.query.returncode = 0
    /\ conv.query.stdout = <<"10.0.0.7", " ">>
    /\ conv.result.service_status = "found"
    /\ conv.result.endpoint # None

Endpoints == {None, <<>>, <<"http://core">>}

\* is_configured: the endpoint is set and not empty
is_configured(endpoint) == endpoint # None /\ Len(endpoint) > 0

\* a key the JSON object of a response body does not carry
Missing == <<"<missing>">>

\* the status codes of a response: the two the client accepts, and two others
HttpStatuses == {200, 202, 400, 500}

\* response bodies: a JSON object with some of the keys the client reads, a
\* JSON array, or text that is not JSON (an empty body included)
Bodies ==
    [json : {"object"},
     wasm_path : {Missing, None, <<"s3://bucket/app.wasm">>},
     image_url : {Missing, None, <<"registry/repo:tag">>},
     detail : {Missing, <<>>, <<"boom">>},
     error : {Missing, <<"bad">>},
     message : {Missing, <<"msg">>},
     text : {<<"{...}">>}]
    \cup
    [json : {"array", "invalid"},
     wasm_path : {Missing}, image_url : {Missing}, detail : {Missing},
     error : {Missing}, message : {Missing},
     text : {<<>>, <<"<html>">>}]

NoBody ==
    [json |-> "invalid", wasm_path |-> Missing, image_url |-> Missing,
     detail |-> Missing, error |-> Missing, message |-> Missing, text |-> <<>>]

\* what self.client.post does: it returns a response, or raises
\* httpx.TimeoutException, another httpx.RequestError, or another exception
Posts ==
    [outcome : {"response"}, status_code : HttpStatuses, body : Bodies, exc : {None}]
    \cup
    [outcome : {"TimeoutException", "RequestError", "Exception"},
     status_code : {200}, body : {NoBody}, exc : ExcText]

\* dict.get(key): the value, or None for a key the object does not carry
Get(v) == IF v = Missing THEN None ELSE v

\* CoreServiceResult; a call that raised would have raised = TRUE
CoreServiceResult(success, operation, wasm_path, image_url, error) ==
    [raised |-> FALSE, success |-> success, operation |-> operation,
     wasm_path |-> wasm_path, image_url |-> image_url, error |-> error]

\* _extract_error: detail, error or message of a JSON object, in that order;
\* otherwise (no such key, an array, not JSON) the status and the raw body
extract_error(response) ==
    LET data == response.body
        raw == <<"HTTP ", ToString(response.status_code), ": ">> \o data.text
    IN  IF data.json = "object"
        THEN IF data.detail # Missing THEN Str(data.detail)
             ELSE IF data.error # Missing THEN Str(data.error)
             ELSE IF data.message # Missing THEN Str(data.message)
             ELSE raw
        ELSE raw

\* response.status_code == 200 or response.status_code == 202
accepted(status_code) == status_code = 200 \/ status_code = 202

\* the body shared by build and push: operation is "build" or "push"
call_core(operation, endpoint, post) ==
    LET fail(e) == CoreServiceResult(FALSE, operation, None, None, e)
    IN  IF ~is_configured(endpoint)
        THEN fail(<<"Core Service endpoint not configured">>)
        ELSE IF post.outcome = "TimeoutException"
        THEN fail(<<"Core Service ", operation, " timed out after ", "300", " seconds">>)
        ELSE IF post.outcome = "RequestError"
        THEN fail(Fmt("Core Service request error: ", post.exc))
        ELSE IF post.outcome = "Exception"
        THEN fail(Fmt("Unexpected error calling Core Service: ", post.exc))
        ELSE IF accepted(post.status_code)
        THEN IF post.body.json = "invalid"
             THEN \* response.json() raises ValueError
                  fail(Fmt("Unexpected error calling Core Service: ",
                           <<"Expecting value">>))
             ELSE IF post.body.json = "array"
             THEN \* data.get raises AttributeError
                  fail(Fmt("Unexpected error calling Core Service: ",
                           <<"'list' object has no attribute 'get'">>))
             ELSE IF operation = "build"
             THEN CoreServiceResult(TRUE, operation, Get(post.body.wasm_path), None, None)
             ELSE CoreServiceResult(TRUE, operation, None, Get(post.body.image_url), None)
        ELSE fail(<<"Core Service ", operation, " failed: ">>
                      \o extract_error(post))

\* CoreServiceClient.build
CoreServiceClient_build(endpoint, post) == call_core("build", endpoint, post)

\* CoreServiceClient.push
CoreServiceClient_push(endpoint, post) == call_core("push", endpoint, post)

\* a client and what its next request will meet; nothing called yet
InitCore ==
    /\ InitProgram
    /\ ~core_endpoint
    /\ conv \in [op : {"core"}, endpoint : Endpoints, post : Posts,
                 called : {"none"},
                 result : {CoreServiceResult(FALSE, "none", None, None, None)}]

CallBuild ==
    /\ conv.op = "core" /\ conv.called = "none"
    /\ conv' = [conv EXCEPT !.called = "build",
                            !.result = CoreServiceClient_build(conv.endpoint, conv.post)]
    /\ UNCHANGED <<tasks, wsmap, store, core_endpoint, next_id, run, issued,
                   updates, stages, responded, now, ret>>

CallPush ==
    /\ conv.op = "core" /\ conv.called = "none"
    /\ conv' = [conv EXCEPT !.called = "push",
                            !.result = CoreServiceClient_push(conv.endpoint, conv.post)]
    /\ UNCHANGED <<tasks, wsmap, store, core_endpoint, next_id, run, issued,
                   updates, stages, responded, now, ret>>

NextCore == CallBuild \/ CallPush

SpecCore == InitCore /\ [][NextCore]_vars

\* C27: build and push never raise; they return success with the response's
\* wasm_path / image_url exactly when the endpoint is configured and the
\* response status is 200 or 202, and in every other case a failure whose
\* error is a non-empty string.
C27_CoreClientResults ==
    (conv.op = "core" /\ conv.called # "none") =>
        LET r == conv.result
            ok == /\ is_configured(conv.endpoint)
                  /\ conv.post.outcome = "response"
                  /\ conv.post.status_code \in {200, 202}
        IN  /\ ~r.raised
            /\ r.success <=> ok
            /\ r.success =>
                  /\ r.error = None
                  /\ conv.called = "build" =>
                        r.wasm_path = Get(conv.post.body.wasm_path)
                  /\ conv.called = "push" =>
                        r.image_url = Get(conv.post.body.image_url)
            /\ ~r.success => (r.error # None /\ Len(r.error) > 0)

\* ------------------------------------- a pipeline beside the status handlers
\* run_*_task is a plain function, so BackgroundTasks runs it on a thread of
\* the pool; get_task_status and list_workspace_tasks are coroutines without
\* an await, so each runs to its end on the event loop's thread. The steps of
\* update_build_status on the pool thread therefore interleave with the steps
\* of one handler at a time. Task objects are shared by reference: Slots are
\* the objects that can be alive at once (the one in _tasks, the one the
\* update holds, the one a handler holds).
Slots == 1..3

BUILDING == [status |-> "BUILDING", wasm_path |-> None, error |-> None]

\* the updates a pipeline issues: BUILDING, then DONE with the artifact or
\* FAILED with an error
PipelineUpdates == {<<BUILDING, u>> : u \in BuildStatusUpdates}

\* what get_task_status puts in its response
Response(task) == [status |-> task.status, result |-> task.result, error |-> task.error]

NoReader == [pc |-> "idle", ref |-> 0, after |-> FALSE, status |-> "none",
             result |-> NoResult]

NoLister == [pc |-> "idle", ws |-> None, items |-> <<>>]

NoPipe == [pc |-> "idle", ref |-> 0, update |-> BUILDING]

\* tid: the task of the pipeline (0: not created); heap and cur: the Task
\* objects and the one _tasks[tid] refers to; todo: the updates still to come;
\* terminal: the terminal status whose update has returned; whole: the
\* responses a reader of a task at rest can get (after create_task, after the
\* in-memory half of an update, after a listing cached a record)
ConcurrentStart ==
    [op |-> "concurrent", tid |-> 0, heap |-> [s \in Slots |-> NoTask], cur |-> 0,
     todo |-> <<>>, pipe |-> NoPipe, terminal |-> "none",
     reader |-> NoReader, lister |-> NoLister, whole |-> {}]

InitConcurrent == InitProgram /\ ~core_endpoint /\ conv = ConcurrentStart

\* objects nobody refers to any more are gone
Collect(c) ==
    [c EXCEPT !.heap = [s \in Slots |->
        IF s \in {c.cur, c.pipe.ref, c.reader.ref} THEN c.heap[s] ELSE NoTask]]

\* an object no reference points to
FreeSlot(c) == CHOOSE s \in Slots : s \notin {c.cur, c.pipe.ref, c.reader.ref}

\* the handlers build / push / build_and_push: create_task, then the pipeline
\* is handed to BackgroundTasks
ConcurrentCreate(w, todo, ok) ==
    /\ conv.op = "concurrent" /\ conv.tid = 0
    /\ conv.reader.pc = "idle" /\ conv.lister.pc = "idle"
    /\ next_id < MaxTasks
    /\ LET t == next_id + 1 IN
        /\ create_task(t, w, None, None, ok)
        /\ next_id' = t
        /\ ret' = [op |-> "create_task", tid |-> t, value |-> t]
        /\ conv' = [conv EXCEPT !.tid = t, !.cur = 1, !.todo = todo,
                                !.heap = [@ EXCEPT ![1] = tasks'[t]],
                                !.whole = {Response(tasks'[t])}]
    /\ UNCHANGED <<core_endpoint, run, issued, updates, stages, responded, now>>

\* a write of the update to the object it holds: the cache shows it when that
\* object is still the one in _tasks; the in-memory half is over when the
\* next step is the store's
PipeWrite(obj, pc) ==
    LET c == conv
        ref == IF c.pipe.pc = "idle" THEN c.cur ELSE c.pipe.ref
    IN  /\ conv' = [c EXCEPT !.heap = [@ EXCEPT ![ref] = obj],
                             !.pipe = [@ EXCEPT !.pc = pc, !.ref = ref],
                             !.whole = IF pc = "store" THEN @ \cup {Response(obj)} ELSE @]
        /\ tasks' = IF ref = c.cur THEN [tasks EXCEPT ![c.tid] = obj] ELSE tasks
        /\ UNCHANGED <<wsmap, store, core_endpoint, next_id, run, issued, updates,
                       stages, responded, now, ret>>

\* the step after the field named: error and result are written only when
\* the update carries them
PcAfter(field, u) ==
    IF field = "updated_at" /\ Truthy(u.error) THEN "error"
    ELSE IF field \in {"updated_at", "error"} /\ Truthy(u.wasm_path) THEN "result"
    ELSE "store"

\* update_build_status: task = self._tasks[task_id]; task.status = task_status
PipeStatus ==
    /\ conv.op = "concurrent" /\ conv.tid # 0
    /\ conv.pipe.pc = "idle" /\ conv.todo # <<>>
    /\ LET u == Head(conv.todo)
           obj == [conv.heap[conv.cur] EXCEPT
                      !.status = BUILD_STATUS_TO_TASK_STATUS(u.status)]
       IN  /\ conv' = [conv EXCEPT !.heap = [@ EXCEPT ![conv.cur] = obj],
                                   !.pipe = [pc |-> "updated_at", ref |-> conv.cur,
                                             update |-> u],
                                   !.todo = Tail(@)]
           /\ tasks' = [tasks EXCEPT ![conv.tid] = obj]
    /\ UNCHANGED <<wsmap, store, core_endpoint, next_id, run, issued, updates,
                   stages, responded, now, ret>>

\* task.updated_at = datetime.utcnow()
PipeUpdatedAt ==
    /\ conv.op = "concurrent" /\ conv.pipe.pc = "updated_at"
    /\ PipeWrite([conv.heap[conv.pipe.ref] EXCEPT !.updated_at = now],
                 PcAfter("updated_at", conv.pipe.update))

\* if error: task.error = error
PipeError ==
    /\ conv.op = "concurrent" /\ conv.pipe.pc = "error"
    /\ PipeWrite([conv.heap[conv.pipe.ref] EXCEPT !.error = conv.pipe.update.error],
                 PcAfter("error", conv.pipe.update))

\* if wasm_path or image_url: task.result = task.result or {}; ...
PipeResult ==
    /\ conv.op = "concurrent" /\ conv.pipe.pc = "result"
    /\ PipeWrite([conv.heap[conv.pipe.ref] EXCEPT
                     !.result = [set |-> TRUE,
                                 wasm_path |-> conv.pipe.update.wasm_path,
                                 image_uri |-> @.image_uri]],
                 PcAfter("result", conv.pipe.update))

\* workspace_id = self._task_workspace_map.get(task_id); the store's update
PipeStore(ok) ==
    /\ conv.op = "concurrent" /\ conv.pipe.pc = "store"
    /\ LET u == conv.pipe.update IN
        store' = IF Truthy(wsmap[conv.tid])
                 THEN UpdateItem(store, wsmap[conv.tid], conv.tid, u.status,
                                 u.wasm_path, None, u.error, ok)
                 ELSE store
    /\ conv' = [conv EXCEPT !.pipe = [@ EXCEPT !.pc = "return"]]
    /\ UNCHANGED <<tasks, wsmap, core_endpoint, next_id, run, issued, updates,
                   stages, responded, now, ret>>

\* update_build_status returns to the pipeline
PipeReturn ==
    /\ conv.op = "concurrent" /\ conv.pipe.pc = "return"
    /\ LET u == conv.pipe.update IN
        /\ issued' = [issued EXCEPT ![conv.tid] = Append(@, u.status)]
        /\ conv' = Collect([conv EXCEPT
                       !.pipe = NoPipe,
                       !.terminal = IF u.status \in {"DONE", "FAILED"}
                                    THEN u.status ELSE @])
    /\ UNCHANGED <<tasks, wsmap, store, core_endpoint, next_id, run, updates,
                   stages, responded, now, ret>>

\* get_task_status: task = task_manager.get_task(task_id, workspace_id); an
\* id that is not cached is looked up in the store and cached; 404 when
\* nothing is found
ReadGet(t, w) ==
    /\ conv.op = "concurrent"
    /\ conv.reader.pc = "idle" /\ conv.lister.pc = "idle"
    /\ IF tasks[t].cached
       THEN /\ conv' = [conv EXCEPT !.reader =
                           [NoReader EXCEPT !.pc = "status", !.ref = conv.cur,
                                            !.after = conv.terminal # "none"]]
            /\ UNCHANGED <<tasks, wsmap, ret>>
       ELSE LET ws_id == IF Truthy(w) THEN w ELSE wsmap[t]
                task == get_task_fresh(store, t, ws_id)
                slot == FreeSlot(conv)
            IN  IF task.cached
                THEN /\ tasks' = [tasks EXCEPT ![t] = task]
                     /\ wsmap' = [wsmap EXCEPT ![t] = ws_id]
                     /\ conv' = [conv EXCEPT
                                    !.heap = [@ EXCEPT ![slot] = task],
                                    !.cur = slot, !.tid = t,
                                    !.whole = @ \cup {Response(task)},
                                    !.reader = [NoReader EXCEPT !.pc = "status",
                                                                !.ref = slot]]
                     /\ UNCHANGED ret
                ELSE /\ ret' = [op |-> "get_task_status", tid |-> t,
                                status_code |-> 404, after |-> FALSE,
                                value |-> Response(NoTask)]
                     /\ UNCHANGED <<tasks, wsmap, conv>>
    /\ UNCHANGED <<store, core_endpoint, next_id, run, issued, updates, stages,
                   responded, now>>

\* status=task.status.value
ReadStatus ==
    /\ conv.op = "concurrent" /\ conv.reader.pc = "status"
    /\ conv' = [conv EXCEPT !.reader =
                   [@ EXCEPT !.pc = "result",
                             !.status = conv.heap[conv.reader.ref].status]]
    /\ UNCHANGED <<tasks, wsmap, store, core_endpoint, next_id, run, issued,
                   updates, stages, responded, now, ret>>

\* result=task.result
ReadResult ==
    /\ conv.op = "concurrent" /\ conv.reader.pc = "result"
    /\ conv' = [conv EXCEPT !.reader =
                   [@ EXCEPT !.pc = "error",
                             !.result = conv.heap[conv.reader.ref].result]]
    /\ UNCHANGED <<tasks, wsmap, store, core_endpoint, next_id, run, issued,
                   updates, stages, responded, now, ret>>

\* error=task.error, and the response
ReadError ==
    /\ conv.op = "concurrent" /\ conv.reader.pc = "error"
    /\ ret' = [op |-> "get_task_status", tid |-> conv.tid, status_code |-> 200,
               after |-> conv.reader.after,
               value |-> [status |-> conv.reader.status,
                          result |-> conv.reader.result,
                          error |-> conv.heap[conv.reader.ref].error]]
    /\ conv' = Collect([conv EXCEPT !.reader = NoReader])
    /\ UNCHANGED <<tasks, wsmap, store, core_endpoint, next_id, run, issued,
                   updates, stages, responded, now>>

\* TaskManager.list_tasks: db_items = self._dynamodb.list_tasks(workspace_id)
ListQuery(w) ==
    /\ conv.op = "concurrent"
    /\ conv.lister.pc = "idle" /\ conv.reader.pc = "idle"
    /\ LET keys == ListedKeys(store, w, 1..4)
       IN  conv' = [conv EXCEPT !.lister =
              [pc |-> "queried", ws |-> w,
               items |-> [i \in 1..Len(keys) |->
                             [tid |-> keys[i].tid,
                              task |-> build_task_item_to_task(
                                  from_dynamodb_item(Item(keys[i], store[keys[i]])))]]]]
    /\ UNCHANGED <<tasks, wsmap, store, core_endpoint, next_id, run, issued,
                   updates, stages, responded, now, ret>>

\* TaskManager.list_tasks, the loop: self._tasks[task.task_id] = task and
\* self._task_workspace_map[task.task_id] = workspace_id for every item, and
\* the handler's response
ListCache ==
    /\ conv.op = "concurrent" /\ conv.lister.pc = "queried"
    /\ LET items == conv.lister.items
           ids == {items[i].tid : i \in 1..Len(items)}
           last(t) == CHOOSE i \in 1..Len(items) :
                         /\ items[i].tid = t
                         /\ \A j \in 1..Len(items) : items[j].tid = t => j <= i
           slot == FreeSlot(conv)
       IN  /\ tasks' = [t \in TaskIds |->
                           IF t \in ids THEN items[last(t)].task ELSE tasks[t]]
           /\ wsmap' = [t \in TaskIds |->
                           IF t \in ids THEN conv.lister.ws ELSE wsmap[t]]
           /\ conv' = IF conv.tid \in ids
                      THEN Collect([conv EXCEPT
                               !.heap = [@ EXCEPT ![slot] = items[last(conv.tid)].task],
                               !.cur = slot,
                               !.whole = @ \cup {Response(items[last(conv.tid)].task)},
                               !.lister = NoLister])
                      ELSE [conv EXCEPT !.lister = NoLister]
           /\ ret' = [op |-> "list_workspace_tasks", ws |-> conv.lister.ws,
                      value |-> [i \in 1..Len(items) |-> items[i].task]]
    /\ UNCHANGED <<store, core_endpoint, next_id, run, issued, updates, stages,
                   responded, now>>

NextConcurrent ==
    \/ \E w \in Workspaces, todo \in PipelineUpdates, ok \in StoreOutcomes :
          ConcurrentCreate(w, todo, ok)
    \/ PipeStatus
    \/ PipeUpdatedAt
    \/ PipeError
    \/ PipeResult
    \/ \E ok \in StoreOutcomes : PipeStore(ok)
    \/ PipeReturn
    \/ \E t \in TaskIds, w \in Workspaces \cup {None} : ReadGet(t, w)
    \/ ReadStatus
    \/ ReadResult
    \/ ReadError
    \/ \E w \in Workspaces : ListQuery(w)
    \/ ListCache

SpecConcurrent == InitConcurrent /\ [][NextConcurrent]_vars

\* the object in _tasks is the cache entry the other operations see
CacheIsCurrentObject ==
    (conv.op = "concurrent" /\ conv.cur # 0) => tasks[conv.tid] = conv.heap[conv.cur]

\* C28: once the pipeline's terminal update has returned, a get_task_status
\* that fetches the task afterwards answers that terminal status, whatever
\* status and listing requests ran beside the pipeline's updates.
C28_StatusNeverRegresses ==
    (conv.op = "concurrent" /\ ret.op = "get_task_status"
        /\ ret.status_code = 200 /\ ret.after) =>
        ret.value.status = BUILD_STATUS_TO_TASK_STATUS(conv.terminal)

\* C29: a status request that runs beside update_build_status answers with
\* the task as it was before an update or as it is after one: its status,
\* result and error together are those of the task at rest.
C29_NoTornRecord ==
    (conv.op = "concurrent" /\ ret.op = "get_task_status"
        /\ ret.status_code = 200) =>
        ret.value \in conv.whole

\* C30: a step of get_task_status or of list_workspace_tasks leaves the
\* cached entry of an already cached task and its workspace mapping as they
\* are: the same object, with the same fields.
C30_ReadersDoNotWrite ==
    [][(conv.op = "concurrent" /\ conv.cur # 0
          /\ (conv'.reader # conv.reader \/ conv'.lister # conv.lister)) =>
            /\ conv'.cur = conv.cur
            /\ conv'.heap[conv.cur] = conv.heap[conv.cur]
            /\ wsmap' = wsmap]_vars

\* ------------------------------------------ the store's service, called directly
\* the arguments update_status is called with: a status alone, an artifact,
\* an artifact and an image, an error text, an empty error text
StoreUpdates ==
    {[status |-> "BUILDING", wasm_path |-> None, image_url |-> None, error_message |-> None],
     [status |-> "DONE", wasm_path |-> <<"s3://bucket/a.wasm">>, image_url |-> None,
      error_message |-> None],
     [status |-> "DONE", wasm_path |-> None, image_url |-> <<"registry/repo:tag">>,
      error_message |-> None],
     [status |-> "FAILED", wasm_path |-> None, image_url |-> None,
      error_message |-> <<"error">>],
     [status |-> "FAILED", wasm_path |-> None, image_url |-> None, error_message |-> <<>>]}

\* DynamoDBService.create_task(item): put_item; True, or False when it raised
DbCreateTask(w, t, ok) ==
    /\ store' = PutItem(store, w, t, <<"app">>, get_source_prefix(w, t), ok)
    /\ ret' = [op |-> "db_create_task", ws |-> w, tid |-> t, value |-> ok]
    /\ UNCHANGED <<tasks, wsmap, next_id, issued, updates, now, pipelines>>

\* DynamoDBService.update_status: update_item; True, or False when it raised
DbUpdateStatus(w, t, u, ok) ==
    /\ store' = UpdateItem(store, w, t, u.status, u.wasm_path, u.image_url,
                           u.error_message, ok)
    /\ ret' = [op |-> "db_update_status", ws |-> w, tid |-> t, update |-> u,
               value |-> ok]
    /\ UNCHANGED <<tasks, wsmap, next_id, issued, updates, now, pipelines>>

\* the calls address the record of one task, drawn at the start
InitStore == InitProgram /\ ~core_endpoint /\ conv \in [op : {"store"}, tid : TaskIds]

NextStore ==
    \/ Tick
    \/ \E w \in Workspaces, ok \in StoreOutcomes : DbCreateTask(w, conv.tid, ok)
    \/ \E w \in Workspaces, u \in StoreUpdates, ok \in StoreOutcomes :
          DbUpdateStatus(w, conv.tid, u, ok)

SpecStore == InitStore /\ [][NextStore]_vars

\* C31: update_status writes Status and a fresh UpdatedAt, writes WasmPath,
\* ImageUrl and ErrorMessage only for the arguments that are not null, and
\* leaves every other attribute of the record, and every other record, as it
\* was; a call whose write raised leaves the table as it was.
C31_UpdateFrame ==
    [][(ret'.op = "db_update_status" /\ now' = now) =>
        LET k == CanonKey(ret'.ws, ret'.tid)
            u == ret'.update
        IN  IF ret'.value
            THEN /\ store'[k].Status = u.status
                 /\ store'[k].UpdatedAt = isoformat(now)
                 /\ store'[k].WasmPath =
                       IF u.wasm_path # None THEN u.wasm_path ELSE store[k].WasmPath
                 /\ store'[k].ImageUrl =
                       IF u.image_url # None THEN u.image_url ELSE store[k].ImageUrl
                 /\ store'[k].ErrorMessage =
                       IF u.error_message # None THEN u.error_message
                       ELSE store[k].ErrorMessage
                 /\ store'[k].Type = store[k].Type
                 /\ store'[k].AppName = store[k].AppName
                 /\ store'[k].SourceCodePath = store[k].SourceCodePath
                 /\ store'[k].CreatedAt = store[k].CreatedAt
                 /\ \A o \in DOMAIN store \ {k} : store'[o] = store[o]
            ELSE store' = store]_vars

\* an update that named no artifact has refreshed a record that was created
\* earlier and carries the artifact of an earlier update
C31_Witness ==
    /\ ret.op = "db_update_status" /\ ret.value
    /\ ret.update.wasm_path = None /\ ret.update.error_message # None
    /\ LET r == store[CanonKey(ret.ws, ret.tid)]
       IN  /\ r.WasmPath # None /\ r.ErrorMessage = ret.update.error_message
           /\ r.Type # None /\ r.CreatedAt # r.UpdatedAt

\* C32: every record present in the store carries the eight required
\* attributes, whatever creates and status updates were made and whichever
\* of their writes failed.
C32_RecordsComplete ==
    ret.op \in {"none", "db_create_task", "db_update_status"} =>
        \A k \in DOMAIN store :
            store[k].exists =>
                /\ store[k].Type # None /\ store[k].AppName # None
                /\ store[k].Status # "<absent>" /\ store[k].SourceCodePath # None
                /\ store[k].CreatedAt # None /\ store[k].UpdatedAt # None

\* C33: the SourceCodePath in the record of a task started by POST /build or
\* POST /build-and-push is the source prefix of that task's id, the one the
\* 202 response returns and the pipeline uploads under.
C33_SourcePrefixOfTask ==
    \A t \in TaskIds :
        LET rec == store[CanonKey(run[t].ws, t)] IN
        (/\ run[t].kind \in {"build", "build_and_push"}
         /\ responded[t]
         /\ rec.exists /\ rec.SourceCodePath # None) =>
            rec.SourceCodePath = get_source_prefix(run[t].ws, t)

\* ------------------------------------------------ lookups of one task id
\* the workspace_id a lookup can name: a workspace, another one, "" or none
LookupWorkspaces == Workspaces \cup OtherWorkspaces \cup {None, EmptyWs}

\* the keys the other process writes under: the canonical and the uppercase
\* form, in the workspace of this process and in another one
LookupKeys == {k \in ForeignKeys : (k.pkp = "ws#") = (k.skp = "build#")}

\* the lookups address one task id, drawn at the start
InitLookup == InitProgram /\ ~core_endpoint /\ conv \in [op : {"lookup"}, tid : TaskIds]

\* another process (the core service) writes a record of the task under one
\* of its key forms
ForeignPut(k, status, stamp) ==
    /\ ~store[k].exists
    /\ store' = [store EXCEPT ![k] =
                    [NoItem EXCEPT !.exists = TRUE, !.Type = <<"BuildTask">>,
                                   !.Status = status,
                                   !.CreatedAt = stamp, !.UpdatedAt = stamp]]
    /\ ret' = [op |-> "foreign_put", key |-> k]
    /\ UNCHANGED <<tasks, wsmap, next_id, issued, updates, now, pipelines>>

NextLookup ==
    \/ \E w \in Workspaces \cup {None} : CallCreateTask(w, None, None, TRUE)
    \/ \E k \in LookupKeys, stamp \in ForeignTimes :
          k.tid = conv.tid /\ ForeignPut(k, "SUCCESS", stamp)
    \/ \E w \in LookupWorkspaces : CallGetTask(conv.tid, w)
    \/ \E w \in Workspaces \cup OtherWorkspaces : CallListTasks(w, 1..4)

SpecLookup == InitLookup /\ [][NextLookup]_vars

\* C34: get_task answers a cached id from the cache and touches nothing; on
\* a miss with a workspace id (given or mapped) whose record the store
\* returns, it answers that record and caches it with its workspace; on a
\* miss without a workspace id, or when the store returns no record, it
\* answers None and leaves the cache as it was. The store is never written.
C34_GetTaskCaching ==
    [][(ret'.op = "get_task") =>
        LET t == ret'.tid
            ws_id == IF Truthy(ret'.ws) THEN ret'.ws ELSE wsmap[t]
            probes == ProbeKeys(ws_id, t)
            readable == {i \in 1..Len(probes) :
                            /\ probes[i] \in DOMAIN store
                            /\ store[probes[i]].exists
                            /\ Converts(Item(probes[i], store[probes[i]]))}
        IN  /\ store' = store
            /\ IF tasks[t].cached
               THEN /\ ret'.value = tasks[t]
                    /\ tasks' = tasks /\ wsmap' = wsmap
               ELSE IF Truthy(ws_id) /\ readable # {}
               THEN /\ ret'.value.cached
                    /\ \E i \in readable :
                          /\ \A j \in readable : i <= j
                          /\ ret'.value.status =
                                BUILD_STATUS_TO_TASK_STATUS(
                                    NormalizeStatus(store[probes[i]].Status))
                    /\ tasks' = [tasks EXCEPT ![t] = ret'.value]
                    /\ wsmap' = [wsmap EXCEPT ![t] = ws_id]
               ELSE /\ ret'.value = NoTask
                    /\ tasks' = tasks /\ wsmap' = wsmap]_vars

\* a task this process never created was found in the store by a lookup
\* that named its workspace, and is cached with that workspace
C34_Witness ==
    /\ ret.op = "get_task" /\ ret.value.cached
    /\ next_id = 0
    /\ tasks[ret.tid] = ret.value /\ wsmap[ret.tid] = ret.ws
    /\ ret.value.status = "completed"

\* C40: a lookup that names a workspace answers a task only if the task
\* belongs to that workspace.
C40_WorkspaceScoped ==
    (ret.op = "get_task" /\ Truthy(ret.ws) /\ ret.value.cached) =>
        ret.value.workspace_id = ret.ws

\* C35: for a task without a workspace id, create_task, update_status and
\* update_build_status change the in-memory task only and leave the store as
\* it was; for a task with a workspace id each of them also writes the
\* task's record: the create puts it, an update sets its Status and UpdatedAt.
C35_WriteThroughOnlyWithWorkspace ==
    [][(ret'.op \in {"create_task", "update_status", "update_build_status"}) =>
        LET t == ret'.tid
            ws == IF ret'.op = "create_task" THEN tasks'[t].workspace_id ELSE wsmap[t]
            rec == store'[CanonKey(ws, t)]
        IN  IF ~Truthy(ws)
            THEN store' = store
            ELSE /\ rec.exists
                 /\ rec.UpdatedAt = isoformat(now)
                 /\ rec.Status =
                       CASE ret'.op = "create_task" -> "PENDING"
                         [] ret'.op = "update_status" ->
                               TASK_STATUS_TO_BUILD_STATUS(ret'.status)
                         [] OTHER -> ret'.status
                 /\ \A o \in DOMAIN store \ {CanonKey(ws, t)} : store'[o] = store[o]]_vars

\* a task created without a workspace was updated to completed in memory
\* while the store holds no record at all
C35_Witness ==
    /\ ret.op = "update_build_status" /\ ret.status = "DONE"
    /\ tasks[ret.tid].cached /\ tasks[ret.tid].status = "completed"
    /\ tasks[ret.tid].workspace_id = None /\ wsmap[ret.tid] = None
    /\ \A k \in DOMAIN store : ~store[k].exists

\* ------------------------------------------- point reads of the store service
\* the get_item calls that answer: all four, none, or all but the first
ProbeOutcomes == {1..4, {}, 2..4}

\* DynamoDBService.get_task: the four key forms in order; a get_item that
\* raises, or an item whose conversion raises, moves on to the next; the
\* first item that converts is returned (key: where it was found)
db_get_task(S, w, t, answered) ==
    LET probes == ProbeKeys(w, t)
        hits == {i \in answered :
                    /\ probes[i] \in DOMAIN S /\ S[probes[i]].exists
                    /\ Converts(Item(probes[i], S[probes[i]]))}
    IN  IF hits = {} THEN [found |-> FALSE, key |-> CanonKey(w, t)]
        ELSE LET i == CHOOSE i \in hits : \A j \in hits : i <= j
             IN [found |-> TRUE, key |-> probes[i]]

DbGetTask(w, t, answered) ==
    /\ ret' = [op |-> "db_get_task", ws |-> w, tid |-> t, answered |-> answered,
               value |-> db_get_task(store, w, t, answered)]
    /\ UNCHANGED <<tasks, wsmap, store, next_id, issued, updates, now, pipelines>>

NextProbe ==
    \/ \E w \in Workspaces, ok \in StoreOutcomes : DbCreateTask(w, conv.tid, ok)
    \/ \E k \in ForeignKeys, stamp \in ForeignTimes :
          k.tid = conv.tid /\ ForeignPut(k, "SUCCESS", stamp)
    \/ \E w \in Workspaces, answered \in ProbeOutcomes : DbGetTask(w, conv.tid, answered)

SpecProbe == InitLookup /\ [][NextProbe]_vars

\* C36: get_task returns the canonical record when one exists, else the
\* first legacy record in the order of the probes when one exists, and None
\* when no record exists or every probe fails.
C36_CanonicalFirst ==
    ret.op = "db_get_task" =>
        LET probes == ProbeKeys(ret.ws, ret.tid)
            present == {i \in 1..Len(probes) : store[probes[i]].exists}
        IN  IF present = {} \/ ret.answered = {}
            THEN ~ret.value.found
            ELSE /\ ret.value.found
                 /\ \E i \in present :
                       /\ \A j \in present : i <= j
                       /\ ret.value.key = probes[i]

\* the part of C36 that holds: what is returned is the first record, in the
\* order canonical then uppercase variants, among those whose get_item
\* answered and whose timestamps parse; None when there is none
C36_FirstReadable ==
    ret.op = "db_get_task" =>
        LET probes == ProbeKeys(ret.ws, ret.tid)
            readable == {i \in ret.answered :
                            /\ store[probes[i]].exists
                            /\ Parses(store[probes[i]].CreatedAt)
                            /\ Parses(store[probes[i]].UpdatedAt)}
        IN  IF readable = {}
            THEN ~ret.value.found
            ELSE /\ ret.value.found
                 /\ \E i \in readable :
                       /\ \A j \in readable : i <= j
                       /\ ret.value.key = probes[i]

\* the stages of the compile-service path and those of the local path
CoreStages == {"core_build", "core_push"}
LocalStages == {"typecheck", "local_build", "upload_artifact", "local_push",
                "mkdtemp", "download"}

\* C37: a build or build-and-push run delegates to the compile service
\* exactly when an endpoint is configured, and then never runs the type
\* check, the local build, the artifact upload or the local push; without an
\* endpoint it never calls the compile service. A push-only run delegates
\* exactly when an endpoint is configured and a source URI is known.
C37_Routing ==
    [][\A t \in TaskIds :
        LET delegate == IF run[t].kind = "push"
                        THEN core_endpoint /\ Truthy(run[t].s3_source_path)
                        ELSE core_endpoint
        IN  /\ (run[t].pc = "upload_source" /\ run'[t].pc \notin {"upload_source", "returned"}) =>
                  run'[t].pc = IF delegate THEN "core_build" ELSE "typecheck"
            /\ (run[t].kind = "push" /\ run[t].pc = "start" /\ run'[t].pc # "start") =>
                  run'[t].pc = IF delegate THEN "core_push" ELSE "push_prepare"
            /\ Len(stages'[t]) > Len(stages[t]) =>
                  LET name == stages'[t][Len(stages'[t])].name IN
                  /\ name \in CoreStages => delegate
                  /\ name \in LocalStages => ~delegate]_vars

\* a build-and-push run with an endpoint configured went through the compile
\* service for both stages and ended
C37_Witness ==
    \E t \in TaskIds :
        /\ core_endpoint /\ run[t].kind = "build_and_push" /\ run[t].pc = "returned"
        /\ Len(stages[t]) = 4
        /\ stages[t][3].name = "core_build" /\ stages[t][4].name = "core_push"
        /\ tasks[t].status = "completed"

\* the names of the stages a run has executed, in order
StageNames(t) == [i \in 1..Len(stages[t]) |-> stages[t][i].name]

\* C38: on the local build path the stages run in the order ingest, upload
\* source, type check, local build, upload artifact; the local build is
\* invoked only after a type check that reported success, and a type check
\* that fails ends the run as FAILED with the checker's output.
C38_TypeCheckGatesBuild ==
    \A t \in TaskIds :
        run[t].kind \in {"build", "build_and_push"} =>
            LET names == StageNames(t)
                order == <<"ingest", "upload_source", "typecheck", "local_build",
                           "upload_artifact">>
            IN  /\ \A i \in 1..Len(names) :
                      names[i] = "local_build" =>
                          /\ i > 1
                          /\ names[i - 1] = "typecheck"
                          /\ stages[t][i - 1].outcome = "ok"
                /\ (~core_endpoint /\ Len(names) <= Len(order)) =>
                      names = SubSeq(order, 1, Len(names))
                /\ \A i \in 1..Len(names) :
                      (names[i] = "typecheck" /\ stages[t][i].outcome = "fail") =>
                          /\ i = Len(names)
                          /\ run[t].pc = "returned"
                          /\ issued[t][Len(issued[t])] = "FAILED"

\* the part of C38 that holds: a type check that ran and did not report
\* success is the last stage of its run, which ends FAILED; the local build
\* never follows it
C38_FailedCheckStopsRun ==
    \A t \in TaskIds :
        \A i \in 1..Len(stages[t]) :
            (stages[t][i].name = "typecheck" /\ stages[t][i].outcome # "ok") =>
                /\ i = Len(stages[t])
                /\ run[t].pc = "returned"
                /\ issued[t][Len(issued[t])] = "FAILED"

\* C39: in the push pipeline a temporary directory created for the download
\* of the source is gone by the time the run ends, whichever way it ends
\* (download failure, push success, push failure, raised exception).
C39_TempDirRemoved ==
    \A t \in TaskIds :
        (run[t].kind = "push" /\ run[t].pc = "returned") =>
            run[t].temp_dir # "created"

\* the part of C39 that holds: a run that reached the local push has no
\* temporary directory left when it ends
C39_RemovedAfterPush ==
    \A t \in TaskIds :
        (/\ run[t].kind = "push"
         /\ run[t].pc = "returned"
         /\ \E i \in 1..Len(stages[t]) : stages[t][i].name = "local_push") =>
            run[t].temp_dir # "created"

====
